---------------------------- MODULE Spec2Model ----------------------------
(***************************************************************************)
(* Audio-transcript webhook service.                                       *)
(*                                                                         *)
(* Several state machines share this module:                               *)
(*   - the RequestQueue scheduler (addRequest / processQueue / clearQueue) *)
(*     of the queued server;                                               *)
(*   - the per-client rate limiter (rateLimitMiddleware);                  *)
(*   - one run of processAudioRequest, the pipeline executor, with its     *)
(*     recording resolver, its Zoho CRM update retry loop and its          *)
(*     temp-file cleanup;                                                  *)
(*   - the token cache of the zoho module (getZohoAccessToken) under       *)
(*     concurrent callers;                                                 *)
(*   - the POST /process-audio handlers of index.js and of the queued      *)
(*     server, and the route of the queued server from its rate limiter    *)
(*     to its queue;                                                       *)
(*   - extractUuid and the format detection, each applied on its own to    *)
(*     inputs drawn from bounded sets.                                     *)
(* Each has its own specification; the variables of the others stay at     *)
(* their parked values.                                                    *)
(***************************************************************************)
EXTENDS Integers, Sequences, FiniteSets, TLC

(***************************************************************************)
(* Bounds of the model.                                                    *)
(***************************************************************************)
\* new RequestQueue(maxConcurrent, maxQueueSize): the constructor arguments
\* (defaults 5 and 100), instantiated small.
maxConcurrent == 1
maxQueueSize == 2
\* number of addRequest calls explored; every call carries a fresh id
MaxRequests == 4
\* Date.now() is explored from 0 to MaxTime
MaxTime == 1

\* RATE_LIMIT_MAX_REQUESTS (environment, default 20), instantiated small
RATE_LIMIT_MAX_REQUESTS == 2
\* Date.now() counts ticks; MsPerSec ticks make one second (1000 in the
\* source) and the window lasts WindowSecs seconds (60 in the source)
MsPerSec == 2
WindowSecs == 2
\* the limiter's clock is explored from 0 to MaxClock
MaxClock == 8
\* number of rateLimitMiddleware calls explored
MaxCalls == 5

\* cap on the CRM writes of one run that the model follows
MaxWrites == 5

\* the zoho module's clock (Date.now()) is explored from 0 to MaxZohoClock
MaxZohoClock == 2
\* number of getZohoAccessToken calls explored under concurrent callers
MaxTokenCalls == 2
\* longest recording reference, in tokens, given to extractUuid on its own
MaxRefLen == 4

Ids == 1..MaxRequests
Clients == {"ipA", "ipB"}
\* the pipeline runs that call getZohoAccessToken concurrently
Callers == {"runA", "runB"}

VARIABLES
    \* ---- RequestQueue ----
    queue,            \* this.queue: array of request ids, oldest first
    activeRequests,   \* keys of this.activeRequests
    requestStats,     \* this.requestStats
    promise,          \* state of the promise addRequest returned for each id
    handler,          \* state of request.handler() for each id
    queueTime,        \* request.queueTime for each id
    now,              \* Date.now()
    nextId,           \* next fresh request id
    immediates,       \* pending setImmediate(() => this.processQueue())
    dispatched,       \* ids in the order processQueue shifted them
    lastOp,           \* name of the last operation taken
    \* ---- rateLimitMiddleware ----
    rateLimitMap,     \* rateLimitMap: client -> {count, resetTime} or absent
    rateNow,          \* Date.now() as the middleware reads it
    rateLog,          \* one entry per call of the middleware, oldest first
    \* ---- processAudioRequest (one run) ----
    requestBody,      \* the requestBody argument
    analysisEnabled,  \* process.env.ANALYSIS_ENABLED
    run,              \* the locals of the run and the state of its promise
    tempFile,         \* TRUE iff the file at tempFilePath exists on disk
    zohoAuth,         \* the token cache of the zoho module
    zohoNow,          \* Date.now() as the zoho module reads it
    writes,           \* the PUTs this run sent to the CRM, oldest first
    tokenCalls,       \* the getZohoAccessToken calls of this run
    extCalls,         \* the external calls this run started, oldest first
    \* ---- getZohoAccessToken under concurrent callers ----
    caller,           \* per caller: where its getZohoAccessToken call is
    tokenLog          \* one entry per getZohoAccessToken call, oldest first

queueVars == <<queue, activeRequests, requestStats, promise, handler,
               queueTime, now, nextId, immediates, dispatched, lastOp>>
rateVars == <<rateLimitMap, rateNow, rateLog>>
runVars == <<requestBody, analysisEnabled, run, tempFile, zohoAuth, zohoNow,
             writes, tokenCalls, extCalls>>
tokenVars == <<caller, tokenLog>>

vars == <<queue, activeRequests, requestStats, promise, handler, queueTime,
          now, nextId, immediates, dispatched, lastOp,
          rateLimitMap, rateNow, rateLog,
          requestBody, analysisEnabled, run, tempFile, zohoAuth, zohoNow,
          writes, tokenCalls, extCalls, caller, tokenLog>>

Range(s) == {s[i] : i \in 1..Len(s)}

(***************************************************************************)
(* RequestQueue                                                            *)
(***************************************************************************)
\* this.requestStats of a new RequestQueue
ZeroStats == [total |-> 0, completed |-> 0, failed |-> 0,
              queued |-> 0, processing |-> 0]

\* const rateLimitMap = new Map()
EmptyRateLimitMap ==
    [c \in Clients |-> [present |-> FALSE, count |-> 0, resetTime |-> 0]]

\* the URLs a request body may carry
UrlA == <<"https://", "cdn.example.com", "/a.mp3">>
UrlB == <<"https://", "cdn.example.com", "/b.mp3">>
UrlC == <<"http://", "cdn.example.com", "/c.mp3">>

\* no getZohoAccessToken call in progress
IdleCallers == [c \in Callers |-> [pc |-> "idle", entry |-> 0]]

\* The request bodies explored: each alias key is absent ("") or carries a
\* value of its own; Call_Recording_URL may also be blank.
Bodies ==
    [type : {"object", "string"},
     Call_Record_ID : {"", "idA"},
     call_record_id : {"", "idB"},
     recordId : {"", "idC"},
     Call_Recording_URL : {<<>>, <<" ">>, UrlA},
     call_recording_url : {<<>>, UrlB},
     recordingUrl : {<<>>, UrlC}]
        \cup
    [type : {"undefined"},
     Call_Record_ID : {""}, call_record_id : {""}, recordId : {""},
     Call_Recording_URL : {<<>>}, call_recording_url : {<<>>},
     recordingUrl : {<<>>}]

NoBody ==
    [type |-> "undefined", Call_Record_ID |-> "", call_record_id |-> "",
     recordId |-> "", Call_Recording_URL |-> <<>>,
     call_recording_url |-> <<>>, recordingUrl |-> <<>>]

\* locals of processAudioRequest before its first statement
FreshRun ==
    [pc |-> "start",
     Call_Record_ID |-> "",
     recordingUrl |-> <<>>,
     voiceRecording |-> <<>>,     \* what fetchZohoCallRecord returned
     uuid |-> <<>>,               \* what extractUuid returned
     contentType |-> <<>>,        \* audioResponse.headers['content-type']
     buffer |-> <<>>,             \* Buffer.from(audioResponse.data)
     fileExtension |-> "",
     fileExtensionAgain |-> "",
     tempFilePath |-> FALSE,      \* let tempFilePath = null
     transcriptText |-> "",
     analysisText |-> "",         \* null
     analysisFailed |-> FALSE,    \* the analysis call threw
     accessToken |-> 0,
     retryCount |-> 0,
     basePayload |-> [id |-> "", Description |-> "", AI_Analysis |-> FALSE],
     outcome |-> "none",
     error |-> "none",
     result |-> [recordId |-> "", transcript |-> ""],
     status |-> 0,                \* no response sent
     everWritten |-> FALSE,
     unlinkFailed |-> FALSE]

\* let zohoAuth = { accessToken: null, expiryTime: null }
EmptyZohoAuth == [accessToken |-> 0, expiryTime |-> 0, issued |-> 0]

\* A new RequestQueue and an empty rateLimitMap; no run of
\* processAudioRequest is followed.
Init ==
    /\ queue = <<>>
    /\ activeRequests = {}
    /\ requestStats = ZeroStats
    /\ promise = [i \in Ids |-> "none"]
    /\ handler = [i \in Ids |-> "none"]
    /\ queueTime = [i \in Ids |-> 0]
    /\ now = 0
    /\ nextId = 1
    /\ immediates = 0
    /\ dispatched = <<>>
    /\ lastOp = "init"
    /\ rateLimitMap = EmptyRateLimitMap
    /\ rateNow = 0
    /\ rateLog = <<>>
    /\ requestBody = NoBody
    /\ analysisEnabled = FALSE
    /\ run = [FreshRun EXCEPT !.pc = "idle"]
    /\ tempFile = FALSE
    /\ zohoAuth = EmptyZohoAuth
    /\ zohoNow = 0
    /\ writes = <<>>
    /\ tokenCalls = <<>>
    /\ extCalls = <<>>
    /\ caller = IdleCallers
    /\ tokenLog = <<>>

\* processAudioRequest(requestBody, requestId) is called; the token cache is
\* empty or holds the token an earlier run obtained.  The queue and the
\* limiter stay as constructed.
InitRun ==
    /\ queue = <<>>
    /\ activeRequests = {}
    /\ requestStats = ZeroStats
    /\ promise = [i \in Ids |-> "none"]
    /\ handler = [i \in Ids |-> "none"]
    /\ queueTime = [i \in Ids |-> 0]
    /\ now = 0
    /\ nextId = 1
    /\ immediates = 0
    /\ dispatched = <<>>
    /\ lastOp = "init"
    /\ rateLimitMap = EmptyRateLimitMap
    /\ rateNow = 0
    /\ rateLog = <<>>
    /\ requestBody \in Bodies
    /\ analysisEnabled \in BOOLEAN
    /\ run = FreshRun
    /\ tempFile = FALSE
    /\ zohoAuth \in {EmptyZohoAuth,
                     [accessToken |-> 1, expiryTime |-> MsPerSec,
                      issued |-> 1]}
    /\ zohoNow = 0
    /\ writes = <<>>
    /\ tokenCalls = <<>>
    /\ extCalls = <<>>
    /\ caller = IdleCallers
    /\ tokenLog = <<>>

\* addRequest: this.queue.length >= this.maxQueueSize
QueueIsFull_Mutant(q) == Len(q) > maxQueueSize
QueueIsFull(q) == Len(q) >= maxQueueSize

\* processQueue: this.activeRequests.size < this.maxConcurrent
HasFreeSlot_Mutant(active) == Cardinality(active) <= maxConcurrent
HasFreeSlot(active) == Cardinality(active) < maxConcurrent

\* processQueue: const request = this.queue.shift()
ShiftIndex_Mutant(q) == Len(q)
ShiftIndex(q) == 1

RemoveAt(q, k) == [i \in 1..(Len(q) - 1) |-> IF i < k THEN q[i] ELSE q[i + 1]]

\* finally: this.activeRequests.delete(request.id)
DeleteActive_Mutant(active, id) == active
DeleteActive(active, id) == active \ {id}

\* clearQueue: this.queue.forEach(request => request.reject(...))
ClearRejects_Mutant(q, p) == p
ClearRejects(q, p) ==
    [i \in Ids |-> IF i \in Range(q) THEN "rejected_cleared" ELSE p[i]]

\* processQueue: this.queue.length > 0
HasBacklog_Mutant(q) == Len(q) > 1
HasBacklog(q) == Len(q) > 0

\* clearQueue: this.requestStats.queued = 0
ClearedStats_Mutant(stats) == stats
ClearedStats(stats) == [stats EXCEPT !.queued = 0]

\* processQueue: request.resolve(result) in the try block,
\* request.reject(error) in the catch block
Settle_Mutant(h) == "resolved"
Settle(h) ==
    IF h = "fulfilled" THEN "resolved"
    ELSE IF h = "rejected" THEN "rejected_task"
    ELSE "rejected_quoting"

\* One pass of processQueue from its loop test up to its first await (or its
\* return): the loop body awaits request.handler(), so a pass dispatches at
\* most one request.  q, active, stats and h are the values the pass starts
\* from; the pass yields the new <<queue, activeRequests, requestStats,
\* handler, dispatched>>.
ProcessQueue(q, active, stats, h, d) ==
    IF HasBacklog(q) /\ HasFreeSlot(active)
    THEN LET k == ShiftIndex(q)
             id == q[k]
         IN  [q |-> RemoveAt(q, k),
              active |-> active \cup {id},
              stats |-> [stats EXCEPT !.queued = @ - 1, !.processing = @ + 1],
              h |-> [h EXCEPT ![id] = "running"],
              d |-> Append(d, id)]
    ELSE [q |-> q, active |-> active, stats |-> stats, h |-> h, d |-> d]

\* addRequest(requestId, requestHandler, requestData) as far as the queue
\* goes; Date.now() may have advanced since the previous call.
AddRequestStep ==
    /\ nextId <= MaxRequests
    /\ \E t \in now..MaxTime :
        LET id == nextId
        IN
        /\ now' = t
        /\ nextId' = nextId + 1
        /\ lastOp' = "addRequest"
        /\ IF QueueIsFull(queue)
           THEN /\ promise' = [promise EXCEPT ![id] = "rejected_full"]
                /\ UNCHANGED <<queue, activeRequests, requestStats, handler,
                               queueTime, immediates, dispatched>>
           ELSE LET pushed == Append(queue, id)
                    st == [requestStats EXCEPT !.total = @ + 1,
                                               !.queued = @ + 1]
                    r == ProcessQueue(pushed, activeRequests, st, handler,
                                      dispatched)
                IN  /\ promise' = [promise EXCEPT ![id] = "pending"]
                    /\ queueTime' = [queueTime EXCEPT ![id] = t]
                    /\ queue' = r.q
                    /\ activeRequests' = r.active
                    /\ requestStats' = r.stats
                    /\ handler' = r.h
                    /\ dispatched' = r.d
                    /\ UNCHANGED immediates

\* an addRequest call on the queue alone
AddRequest ==
    /\ AddRequestStep
    /\ UNCHANGED <<rateVars, runVars, tokenVars>>

\* The promise of request.handler() settles (the pipeline run finishes).
HandlerSettles(id) ==
    \E ok \in BOOLEAN :
        /\ handler[id] = "running"
        /\ handler' = [handler EXCEPT ![id] = IF ok THEN "fulfilled"
                                                     ELSE "rejected"]
        /\ lastOp' = "handlerSettles"
        /\ UNCHANGED <<rateVars, runVars, tokenVars>>
        /\ UNCHANGED <<queue, activeRequests, requestStats, promise,
                       queueTime, now, nextId, immediates, dispatched>>

\* processQueue resumes after `await request.handler()`: try/catch/finally,
\* then the loop test again.
Continuation(id) ==
        /\ handler[id] \in {"fulfilled", "rejected", "rejected_quoting"}
        /\ LET ok == handler[id] = "fulfilled"
               st == IF ok
                     THEN [requestStats EXCEPT !.completed = @ + 1,
                                               !.processing = @ - 1]
                     ELSE [requestStats EXCEPT !.failed = @ + 1,
                                               !.processing = @ - 1]
               h == [handler EXCEPT ![id] = IF ok THEN "done_ok"
                                                   ELSE "done_err"]
               r == ProcessQueue(queue, DeleteActive(activeRequests, id), st,
                                 h, dispatched)
           IN  /\ promise' = [promise EXCEPT ![id] =
                                 IF @ = "pending" THEN Settle(handler[id])
                                 ELSE @]
               /\ immediates' = immediates + 1
               /\ queue' = r.q
               /\ activeRequests' = r.active
               /\ requestStats' = r.stats
               /\ handler' = r.h
               /\ dispatched' = r.d
        /\ lastOp' = "continuation"
        /\ UNCHANGED <<rateVars, runVars, tokenVars>>
        /\ UNCHANGED <<queueTime, now, nextId>>

\* setImmediate(() => this.processQueue()) fires.
Immediate ==
    /\ immediates > 0
    /\ LET r == ProcessQueue(queue, activeRequests, requestStats, handler,
                             dispatched)
       IN  /\ queue' = r.q
           /\ activeRequests' = r.active
           /\ requestStats' = r.stats
           /\ handler' = r.h
           /\ dispatched' = r.d
    /\ immediates' = immediates - 1
    /\ lastOp' = "immediate"
    /\ UNCHANGED <<rateVars, runVars, tokenVars>>
    /\ UNCHANGED <<promise, queueTime, now, nextId>>

\* clearQueue()
ClearQueue ==
    /\ promise' = ClearRejects(queue, promise)
    /\ queue' = <<>>
    /\ requestStats' = ClearedStats(requestStats)
    /\ lastOp' = "clearQueue"
    /\ UNCHANGED <<rateVars, runVars, tokenVars>>
    /\ UNCHANGED <<activeRequests, handler, queueTime, now, nextId,
                   immediates, dispatched>>

NextQueue ==
    \/ AddRequest
    \/ \E id \in Ids : HandlerSettles(id)
    \/ \E id \in Ids : Continuation(id)
    \/ Immediate
    \/ ClearQueue

Spec == Init /\ [][NextQueue]_vars

\* The event loop runs every ready continuation and every setImmediate
\* callback; every dispatched handler is assumed to settle.  Nothing obliges
\* a further addRequest or clearQueue call.
SpecFair ==
    /\ Spec
    /\ \A id \in Ids : WF_vars(HandlerSettles(id))
    /\ \A id \in Ids : WF_vars(Continuation(id))
    /\ WF_vars(Immediate)

\* As SpecFair, without any assumption on the setImmediate callbacks: the
\* continuation of processQueue after its await is all that settlement needs.
SpecSettleFair ==
    /\ Spec
    /\ \A id \in Ids : WF_vars(HandlerSettles(id))
    /\ \A id \in Ids : WF_vars(Continuation(id))

(***************************************************************************)
(* rateLimitMiddleware                                                     *)
(***************************************************************************)
\* const RATE_LIMIT_WINDOW = 60 * 1000
RATE_LIMIT_WINDOW == WindowSecs * MsPerSec

\* Math.ceil(x / d) for x >= 0
Ceil(x, d) == (x + d - 1) \div d

\* if (now > clientData.resetTime)
WindowExpired_Mutant(t, resetTime) == t >= resetTime
WindowExpired(t, resetTime) == t > resetTime

\* if (clientData.count >= RATE_LIMIT_MAX_REQUESTS)
LimitReached_Mutant(count) == count > RATE_LIMIT_MAX_REQUESTS
LimitReached(count) == count >= RATE_LIMIT_MAX_REQUESTS

\* retryAfter: Math.ceil((clientData.resetTime - now) / 1000)
RetryAfter(resetTime, t) == Ceil(resetTime - t, MsPerSec)

\* time passes between two calls of the middleware
RateTick ==
    /\ rateNow < MaxClock
    /\ rateNow' = rateNow + 1
    /\ UNCHANGED <<rateLimitMap, rateLog>>
    /\ UNCHANGED <<queueVars, runVars, tokenVars>>

\* const clientIp = req.ip || ...; rateLimitMap.get(clientIp): the key of
\* the entry a request of client c is counted under
ClientKey_Mutant(c) == "ipA"
ClientKey(c) == c

\* rateLimitMiddleware(req, res, next) for a request of client c, as far as
\* the limiter goes
RateLimitStep(c) ==
    /\ Len(rateLog) < MaxCalls
    /\ LET t == rateNow
           \* if (!rateLimitMap.has(clientIp)) rateLimitMap.set(...)
           d0 == IF rateLimitMap[ClientKey(c)].present
                 THEN rateLimitMap[ClientKey(c)]
                 ELSE [present |-> TRUE, count |-> 0,
                       resetTime |-> t + RATE_LIMIT_WINDOW]
           d1 == IF WindowExpired(t, d0.resetTime)
                 THEN [d0 EXCEPT !.count = 0,
                                 !.resetTime = t + RATE_LIMIT_WINDOW]
                 ELSE d0
       IN  IF LimitReached(d1.count)
           THEN /\ rateLimitMap' = [rateLimitMap EXCEPT ![ClientKey(c)] = d1]
                /\ rateLog' = Append(rateLog,
                       [client |-> c, time |-> t, status |-> 429,
                        resetTime |-> d1.resetTime,
                        retryAfter |-> RetryAfter(d1.resetTime, t),
                        before |-> rateLimitMap[ClientKey(c)], after |-> d1])
           ELSE /\ rateLimitMap' = [rateLimitMap EXCEPT ![ClientKey(c)] =
                                       [d1 EXCEPT !.count = @ + 1]]
                /\ rateLog' = Append(rateLog,
                       [client |-> c, time |-> t, status |-> 0,
                        resetTime |-> d1.resetTime, retryAfter |-> 0,
                        before |-> rateLimitMap[ClientKey(c)],
                        after |-> [d1 EXCEPT !.count = @ + 1]])
    /\ UNCHANGED rateNow

\* a call of the middleware on its own
RateLimitMiddleware(c) ==
    /\ RateLimitStep(c)
    /\ UNCHANGED <<queueVars, runVars, tokenVars>>

NextRate ==
    \/ RateTick
    \/ \E c \in Clients : RateLimitMiddleware(c)

SpecRate == Init /\ [][NextRate]_vars

(***************************************************************************)
(* The /process-audio route: rateLimitMiddleware, then the queue           *)
(***************************************************************************)
\* rateLimitMiddleware calls next() unless it answered 429
CallsNext_Mutant(status) == TRUE
CallsNext(status) == status # 429

\* A POST /process-audio of client c with a parsed (not multipart) body: the
\* middleware registered by app.use('/process-audio', rateLimitMiddleware)
\* runs first and, when it calls next(), upload.none() and the route handler
\* follow in the same turn of the event loop up to the await of
\* requestQueue.addRequest(...).
QueuedPost(c) ==
    /\ nextId <= MaxRequests
    /\ RateLimitStep(c)
    /\ IF CallsNext(rateLog'[Len(rateLog')].status)
       THEN AddRequestStep
       ELSE UNCHANGED queueVars
    /\ UNCHANGED <<runVars, tokenVars>>

\* a whole window passes between two requests
RouteTick ==
    /\ rateNow + RATE_LIMIT_WINDOW + 1 <= MaxClock
    /\ rateNow' = rateNow + RATE_LIMIT_WINDOW + 1
    /\ UNCHANGED <<rateLimitMap, rateLog>>
    /\ UNCHANGED <<queueVars, runVars, tokenVars>>

NextRoute ==
    \/ RouteTick
    \/ \E c \in Clients : QueuedPost(c)
    \/ \E id \in Ids : HandlerSettles(id)
    \/ \E id \in Ids : Continuation(id)

\* The route alone: the setImmediate passes of processQueue (which find
\* nothing left to dispatch) and the administrator's clearQueue are steps of
\* Spec, not of this specification.
SpecRoute == Init /\ [][NextRoute]_vars

(***************************************************************************)
(* The zoho module: token cache                                            *)
(***************************************************************************)
\* Date.now() + (expiresIn - 300) * 1000
SKEW_SECS == 300

\* response.data.expires_in of the OAuth endpoint, in seconds: a token that
\* is already within the skew of its expiry, or one that outlives it
ExpiresIn == {SKEW_SECS, SKEW_SECS + 1}

\* if (zohoAuth.accessToken && zohoAuth.expiryTime > Date.now())
TokenIsValid_Mutant(auth, t) == auth.accessToken # 0
TokenIsValid(auth, t) == auth.accessToken # 0 /\ auth.expiryTime > t

\* getZohoAccessToken takes no parameter: the argument of
\* getZohoAccessToken(true) is dropped and the cached token is returned
\* whenever it is valid
ReturnsCached(auth, t, force) == TokenIsValid(auth, t)

\* clearZohoAccessToken() of the zoho module: drops the cached credential
ClearZohoAccessToken(auth) == [auth EXCEPT !.accessToken = 0, !.expiryTime = 0]

\* getZohoAccessToken: the refresh call succeeded at time t; token and expiry
\* are replaced together.  Every token the endpoint issues is a new one.
Refreshed(auth, t, expiresIn) ==
    [accessToken |-> auth.issued + 1,
     expiryTime |-> t + (expiresIn - SKEW_SECS) * MsPerSec,
     issued |-> auth.issued + 1]

(***************************************************************************)
(* Strings of the recording resolver                                       *)
(***************************************************************************)
\* A recording reference or URL is a sequence of tokens; " " is white space,
\* Uuid stands for a string of the shape 8-4-4-4-12 hexadecimal digits.
Uuid == "11aff2d5-39e7-4a0b-b7cd-461fde93f44c"
IsUuidShaped(tok) == tok = Uuid
\* a token made of characters other than '/' and '?' (white space is one)
IsSegment(tok) == tok \in {Uuid, "call42", "junk", "cdn.example.com",
                           "phonebridge.zoho.com", "kpi.knowlarity.com", " "}

RECURSIVE TrimStart(_)
TrimStart(s) == IF s # <<>> /\ Head(s) = " " THEN TrimStart(Tail(s)) ELSE s
RECURSIVE TrimEnd(_)
TrimEnd(s) ==
    IF s # <<>> /\ s[Len(s)] = " " THEN TrimEnd(SubSeq(s, 1, Len(s) - 1))
                                   ELSE s
\* String(value).trim()
TrimTokens(s) == TrimEnd(TrimStart(s))

\* s.startsWith(prefix), prefix being one token
StartsWith(s, prefix) == s # <<>> /\ s[1] = prefix
\* s.includes(part), part being one token
Includes(s, part) == \E i \in 1..Len(s) : s[i] = part

\* positions of the matches of a pattern `/recording/` followed by a token
\* that satisfies Shape
RecordingMatches(s, Shape(_)) ==
    {i \in 1..(Len(s) - 1) : s[i] = "/recording/" /\ Shape(s[i + 1])}
Min(S) == CHOOSE x \in S : \A y \in S : x <= y

\* ([^/?]+) matched from position i: the longest run of segment tokens
SegmentFrom(s, i) ==
    LET stops == {k \in i..Len(s) : ~IsSegment(s[k])}
        last == IF stops = {} THEN Len(s) ELSE Min(stops) - 1
    IN  SubSeq(s, i, last)

\* extractUuid(value): (1) /recording/{uuid}, (2) /recording/{any id},
\* (3) a UUID anywhere; '' (the empty sequence) when nothing matches
extractUuid_Mutant(value) ==
    LET s == TrimTokens(value)
        m1 == RecordingMatches(s, IsUuidShaped)
        m2 == RecordingMatches(s, IsSegment)
        m3 == {i \in 1..Len(s) : IsUuidShaped(s[i])}
    IN  IF s = <<>> THEN <<>>
        ELSE IF m2 # {} THEN SegmentFrom(s, Min(m2) + 1)
        ELSE IF m1 # {} THEN <<s[Min(m1) + 1]>>
        ELSE IF m3 # {} THEN <<s[Min(m3)]>>
        ELSE <<>>
extractUuid(value) ==
    LET s == TrimTokens(value)
        m1 == RecordingMatches(s, IsUuidShaped)
        m2 == RecordingMatches(s, IsSegment)
        m3 == {i \in 1..Len(s) : IsUuidShaped(s[i])}
    IN  IF s = <<>> THEN <<>>
        ELSE IF m1 # {} THEN <<s[Min(m1) + 1]>>
        ELSE IF m2 # {} THEN SegmentFrom(s, Min(m2) + 1)
        ELSE IF m3 # {} THEN <<s[Min(m3)]>>
        ELSE <<>>

\* if (!uuid) throw
NoUuid_Mutant(uuid) == FALSE
NoUuid(uuid) == uuid = <<>>

\* const isPhonebridgeUrl = voiceRecordingStr.includes('phonebridge.zoho.com')
isPhonebridgeUrl(s) == Includes(s, "phonebridge.zoho.com")

\* (startsWith('http://') || startsWith('https://')) && !isPhonebridgeUrl
IsDirectUrl_Mutant(s) == StartsWith(s, "http://") \/ StartsWith(s, "https://")
IsDirectUrl(s) ==
    /\ StartsWith(s, "http://") \/ StartsWith(s, "https://")
    /\ ~isPhonebridgeUrl(s)

\* the secured_recording_url of the Knowlarity response
SecuredUrl == <<"https://", "kpi.knowlarity.com", "/secured.mp3">>

\* what the Voice_Recording__s field of the CRM record may hold (a value
\* fetchZohoCallRecord returns is never empty)
VoiceRecordings ==
    { <<" ">>,
      <<"https://", "cdn.example.com", "/a.mp3">>,
      <<" ", "http://", "cdn.example.com", "/a.mp3", " ">>,
      <<"https://", "phonebridge.zoho.com", "/recording/", Uuid,
        "?serviceID=9">>,
      <<"https://", "phonebridge.zoho.com", "/a.mp3">>,
      <<Uuid>>,
      <<"/recording/", "call42", "?serviceID=9">>,
      <<"cdn.example.com", "/a.mp3">> }

(***************************************************************************)
(* processAudioRequest                                                     *)
(***************************************************************************)
\* a || b on strings: the empty string is falsy, a blank one is not
Or(a, b) == IF a # "" THEN a ELSE b
\* a || b on URLs
OrUrl(a, b) == IF a # <<>> THEN a ELSE b

\* transcriptText.trim()
Trim(u) == IF u = " " THEN "" ELSE u

\* if (!Call_Record_ID) throw
MissingId_Mutant(id) == FALSE
MissingId(id) == id = ""

\* if (!recordingUrl || String(recordingUrl).trim() === '')
NoUsableUrl(url) == url = <<>> \/ TrimTokens(url) = <<>>

\* if (!transcriptText || transcriptText.trim().length === 0) throw
IsBlankTranscript_Mutant(text) == FALSE
IsBlankTranscript(text) == text = "" \/ Trim(text) = ""

\* const maxRetries = 2
maxRetries == 2

\* what the CRM answers to a PUT: accepted, or an error whose payload mentions
\* an authentication failure, the AI_Analysis field, both or neither, or no
\* response at all
PutResponses == {"ok", "auth", "field", "auth_field", "other", "network"}

\* isAuthError(errorData)
isAuthError_Mutant(e) == e # "ok"
isAuthError(e) == e \in {"auth", "auth_field"}

\* JSON.stringify(parsedError).toLowerCase().includes('ai_analysis')
isFieldError(e) == e \in {"field", "auth_field"}

\* retryCount++
NextRetryCount_Mutant(rc) == rc
NextRetryCount(rc) == rc + 1

\* basePayload = { data: [{ id, Description }] }, AI_Analysis being added
\* when analysisText is not empty
BasePayload_Mutant(id, text, analysis) ==
    [id |-> id, Description |-> text, AI_Analysis |-> TRUE]
BasePayload(id, text, analysis) ==
    [id |-> id, Description |-> text, AI_Analysis |-> analysis # ""]

\* return { recordId: Call_Record_ID, transcript: transcriptText, ... }
Result_Mutant(r) == [recordId |-> r.Call_Record_ID, transcript |-> ""]
Result(r) == [recordId |-> r.Call_Record_ID, transcript |-> r.transcriptText]

\* what POST /process-audio answers once the run has settled
Status(out) == IF out = "success" THEN 200 ELSE 500

\* finally: if (tempFilePath && fs.existsSync(tempFilePath)) unlinkSync, the
\* failure of unlinkSync being caught and logged.  Yields whether the file
\* exists afterwards.
Finally_Mutant(pathSet, exists, unlinkOk) == exists
Finally(pathSet, exists, unlinkOk) ==
    IF pathSet /\ exists THEN ~unlinkOk ELSE exists

\* basePayload.data[0] = { id, Description }; delete ...AI_Analysis
DropAnalysis_Mutant(payload) == payload
DropAnalysis(payload) == [payload EXCEPT !.AI_Analysis = FALSE]

\* an external call is started / the last one started is answered
Started(ext, name) == Append(ext, [call |-> name, result |-> "pending"])
Answered(ext, res) == [ext EXCEPT ![Len(ext)].result = res]

\* the variables of the run other than its locals and its temp file
Frame(auth, t, w, calls, ext) ==
    /\ zohoAuth' = auth
    /\ zohoNow' = t
    /\ writes' = w
    /\ tokenCalls' = calls
    /\ extCalls' = ext

\* The promise of the run settles: return or throw, then the finally block.
\* r holds the locals, exists tells whether the temp file is on disk.
Settled(r, exists, out, err) ==
    \E unlinkOk \in BOOLEAN :
        /\ tempFile' = Finally(r.tempFilePath, exists, unlinkOk)
        /\ run' = [r EXCEPT
                      !.pc = "settled",
                      !.outcome = out,
                      !.error = err,
                      !.result = IF out = "success" THEN Result(r) ELSE @,
                      !.status = Status(out),
                      !.unlinkFailed = r.tempFilePath /\ exists /\ ~unlinkOk]

\* the test of `while (retryCount <= maxRetries)` and the try block up to its
\* first await.  A retry first calls getZohoAccessToken(true): when the cached
\* token is valid it is returned at once, and `accessToken = ...` assigns to
\* a binding declared const and throws a TypeError, which carries no
\* response and is rethrown by the catch; otherwise a refresh is started.
\* The first pass sends the PUT at once; leaving the loop leads to the
\* return.  t0 is the clock of the zoho module.
LoopHead(r, w, auth, calls, ext, t0) ==
    IF r.retryCount <= maxRetries
    THEN IF r.retryCount > 0
         THEN \E t \in t0..MaxZohoClock :
                IF ReturnsCached(auth, t, TRUE)
                THEN /\ Settled(r, tempFile, "failed", "const_assign")
                     /\ Frame(auth, t, w,
                              Append(calls, [force |-> TRUE,
                                             refresh |-> FALSE]), ext)
                ELSE /\ run' = [r EXCEPT !.pc = "crm_token"]
                     /\ UNCHANGED tempFile
                     /\ Frame(auth, t, w,
                              Append(calls, [force |-> TRUE,
                                             refresh |-> TRUE]),
                              Started(ext, "oauth_retry"))
         ELSE /\ Len(w) < MaxWrites
              /\ run' = [r EXCEPT !.pc = "crm_put"]
              /\ UNCHANGED tempFile
              /\ Frame(auth, t0,
                       Append(w, [token |-> r.accessToken,
                                  payload |-> r.basePayload,
                                  result |-> "pending"]),
                       calls, Started(ext, "crm_put"))
    ELSE /\ Settled(r, tempFile, "success", "none")
         /\ Frame(auth, t0, w, calls, ext)

\* catch (zErr) of the retry loop; e classifies zErr.response?.data and err
\* names the error that is rethrown.
Catch(r, w, auth, calls, ext, t0, e, err) ==
    IF isAuthError(e) /\ r.retryCount < maxRetries
    THEN LoopHead([r EXCEPT !.retryCount = NextRetryCount(@)], w,
                  ClearZohoAccessToken(auth), calls, ext, t0)
    ELSE IF r.analysisText # "" /\ isFieldError(e) /\ r.retryCount = 0
    THEN LoopHead([r EXCEPT !.retryCount = NextRetryCount(@),
                            !.basePayload = DropAnalysis(@)],
                  w, auth, calls, ext, t0)
    ELSE /\ Settled(r, tempFile, "failed", err)
         /\ Frame(auth, t0, w, calls, ext)

\* basePayload is built and the retry loop entered
UpdateZoho(r, w, auth, calls, ext, t0) ==
    LoopHead([r EXCEPT !.basePayload = BasePayload(r.Call_Record_ID,
                                                   r.transcriptText,
                                                   r.analysisText),
                       !.retryCount = 0],
             w, auth, calls, ext, t0)

\* after `const accessToken = await getZohoAccessToken()`: the analysis call
\* when analysis is enabled, the CRM update otherwise
AfterToken(r, auth, calls, ext, t0) ==
    IF analysisEnabled
    THEN /\ run' = [r EXCEPT !.pc = "analysis"]
         /\ UNCHANGED tempFile
         /\ Frame(auth, t0, writes, calls, Started(ext, "analysis"))
    ELSE UpdateZoho(r, writes, auth, calls, ext, t0)

\* axios.get(recordingUrl) is started
StartDownload(r, url, auth, t0, calls, ext) ==
    /\ run' = [r EXCEPT !.pc = "download", !.recordingUrl = url]
    /\ UNCHANGED tempFile
    /\ Frame(auth, t0, writes, calls, Started(ext, "download"))

\* from the first statement to the first await: the body is parsed, the
\* identifier and the URL are taken from their alias keys, and either the
\* download or the resolver is started.  The resolver starts with
\* fetchZohoCallRecord, which asks for a token and then queries the CRM.
ParseRequest ==
    /\ run.pc = "start"
    /\ LET b == requestBody
           id == Or(b.Call_Record_ID, Or(b.call_record_id, b.recordId))
           url == OrUrl(b.Call_Recording_URL,
                        OrUrl(b.call_recording_url, b.recordingUrl))
           r == [run EXCEPT !.Call_Record_ID = id]
       IN  IF b.type = "undefined"
           THEN /\ Settled(run, tempFile, "failed", "parse")
                /\ Frame(zohoAuth, zohoNow, writes, tokenCalls, extCalls)
           ELSE IF MissingId(id)
           THEN /\ Settled(run, tempFile, "failed", "missing_id")
                /\ Frame(zohoAuth, zohoNow, writes, tokenCalls, extCalls)
           ELSE IF NoUsableUrl(url)
           THEN \E t \in zohoNow..MaxZohoClock :
                  IF ReturnsCached(zohoAuth, t, FALSE)
                  THEN /\ run' = [r EXCEPT !.pc = "resolve"]
                       /\ UNCHANGED tempFile
                       /\ Frame(zohoAuth, t, writes,
                                Append(tokenCalls, [force |-> FALSE,
                                                    refresh |-> FALSE]),
                                Started(extCalls, "crm_fetch"))
                  ELSE /\ run' = [r EXCEPT !.pc = "resolve_token"]
                       /\ UNCHANGED tempFile
                       /\ Frame(zohoAuth, t, writes,
                                Append(tokenCalls, [force |-> FALSE,
                                                    refresh |-> TRUE]),
                                Started(extCalls, "oauth_resolver"))
           ELSE StartDownload(r, url, zohoAuth, zohoNow, tokenCalls, extCalls)
    /\ UNCHANGED <<requestBody, analysisEnabled>>
    /\ UNCHANGED <<queueVars, rateVars, tokenVars>>

\* the refresh call fetchZohoCallRecord waits for settles; on success the
\* COQL query is sent
ResolveTokenResponds ==
    /\ run.pc = "resolve_token"
    /\ \E ok \in BOOLEAN, t \in zohoNow..MaxZohoClock, e \in ExpiresIn :
        IF ok
        THEN /\ run' = [run EXCEPT !.pc = "resolve"]
             /\ UNCHANGED tempFile
             /\ Frame(Refreshed(zohoAuth, t, e), t, writes, tokenCalls,
                      Started(Answered(extCalls, "ok"), "crm_fetch"))
        ELSE /\ Settled(run, tempFile, "failed", "resolve_token")
             /\ Frame(zohoAuth, zohoNow, writes, tokenCalls,
                      Answered(extCalls, "failed"))
    /\ UNCHANGED <<requestBody, analysisEnabled>>
    /\ UNCHANGED <<queueVars, rateVars, tokenVars>>

\* fetchZohoCallRecord settles: it throws (no record, no recording field, an
\* API error) or returns the Voice_Recording__s value, which
\* getRecordingUrlFromFallback returns as it is, turns into an identifier
\* for Knowlarity, or rejects.  fetchKnowlarityRecordingUrl throws before
\* its request when the Knowlarity credentials are not configured.
ResolveResponds ==
    /\ run.pc = "resolve"
    /\ \E ok \in BOOLEAN, v \in VoiceRecordings, creds \in BOOLEAN :
        LET s == TrimTokens(v)
            uuid == extractUuid(s)
            r == [run EXCEPT !.voiceRecording = v]
            ext == Answered(extCalls, "ok")
        IN  IF ~ok
            THEN /\ Settled(run, tempFile, "failed", "record_missing")
                 /\ Frame(zohoAuth, zohoNow, writes, tokenCalls,
                          Answered(extCalls, "failed"))
            ELSE IF TrimTokens(v) = <<>>
            THEN /\ Settled(r, tempFile, "failed", "reference_blank")
                 /\ Frame(zohoAuth, zohoNow, writes, tokenCalls, ext)
            ELSE IF IsDirectUrl(s)
            THEN StartDownload(r, s, zohoAuth, zohoNow, tokenCalls, ext)
            ELSE IF NoUuid(uuid)
            THEN /\ Settled(r, tempFile, "failed", "no_identifier")
                 /\ Frame(zohoAuth, zohoNow, writes, tokenCalls, ext)
            ELSE IF ~creds
            THEN /\ Settled([r EXCEPT !.uuid = uuid], tempFile, "failed",
                            "knowlarity_credentials")
                 /\ Frame(zohoAuth, zohoNow, writes, tokenCalls, ext)
            ELSE /\ run' = [r EXCEPT !.pc = "knowlarity", !.uuid = uuid]
                 /\ UNCHANGED tempFile
                 /\ Frame(zohoAuth, zohoNow, writes, tokenCalls,
                          Started(ext, "knowlarity"))
    /\ UNCHANGED <<requestBody, analysisEnabled>>
    /\ UNCHANGED <<queueVars, rateVars, tokenVars>>

\* the request of fetchKnowlarityRecordingUrl settles
KnowlarityResponds ==
    /\ run.pc = "knowlarity"
    /\ \E res \in {"fail", "no_secured_url", "secured"} :
        CASE res = "fail" ->
                /\ Settled(run, tempFile, "failed", "knowlarity")
                /\ Frame(zohoAuth, zohoNow, writes, tokenCalls,
                         Answered(extCalls, "failed"))
          [] res = "no_secured_url" ->
                /\ Settled(run, tempFile, "failed", "no_secured_url")
                /\ Frame(zohoAuth, zohoNow, writes, tokenCalls,
                         Answered(extCalls, "ok"))
          [] res = "secured" ->
                StartDownload(run, SecuredUrl, zohoAuth, zohoNow, tokenCalls,
                              Answered(extCalls, "ok"))
    /\ UNCHANGED <<requestBody, analysisEnabled>>
    /\ UNCHANGED <<queueVars, rateVars, tokenVars>>

\* axios.get(recordingUrl) settles; on success the bytes are written to the
\* temp file and the transcription is requested.  mkdirSync can throw before
\* tempFilePath is set; writeFileSync can throw after it, leaving a partial
\* file or none.
DownloadResponds ==
    /\ run.pc = "download"
    /\ \E persist \in {"download_fails", "mkdir_fails", "write_fails",
                        "write_fails_partial", "ok"} :
        CASE persist = "download_fails" ->
                /\ Settled(run, tempFile, "failed", "download")
                /\ extCalls' = Answered(extCalls, "failed")
          [] persist = "mkdir_fails" ->
                /\ Settled(run, tempFile, "failed", "persist")
                /\ extCalls' = Answered(extCalls, "ok")
          [] persist = "write_fails" ->
                /\ Settled([run EXCEPT !.tempFilePath = TRUE], FALSE,
                           "failed", "persist")
                /\ extCalls' = Answered(extCalls, "ok")
          [] persist = "write_fails_partial" ->
                /\ Settled([run EXCEPT !.tempFilePath = TRUE,
                                       !.everWritten = TRUE], TRUE,
                           "failed", "persist")
                /\ extCalls' = Answered(extCalls, "ok")
          [] persist = "ok" ->
                /\ run' = [run EXCEPT !.pc = "transcribe",
                                      !.tempFilePath = TRUE,
                                      !.everWritten = TRUE]
                /\ tempFile' = TRUE
                /\ extCalls' = Started(Answered(extCalls, "ok"),
                                       "transcribe")
    /\ UNCHANGED <<requestBody, analysisEnabled, zohoAuth, zohoNow, writes,
                   tokenCalls>>
    /\ UNCHANGED <<queueVars, rateVars, tokenVars>>

\* openai.audio.translations.create settles; a blank transcript is an error;
\* otherwise getZohoAccessToken() is called: it returns the cached token
\* when there is one that has not expired, else it starts a refresh.
TranscribeResponds ==
    /\ run.pc = "transcribe"
    /\ \E text \in {"fail", "", " ", "hello world"},
          t \in zohoNow..MaxZohoClock :
        IF text = "fail"
        THEN /\ Settled(run, tempFile, "failed", "transcribe")
             /\ Frame(zohoAuth, zohoNow, writes, tokenCalls,
                      Answered(extCalls, "failed"))
        ELSE IF IsBlankTranscript(text)
        THEN /\ Settled([run EXCEPT !.transcriptText = text], tempFile,
                        "failed", "empty_transcript")
             /\ Frame(zohoAuth, zohoNow, writes, tokenCalls,
                      Answered(extCalls, "ok"))
        ELSE LET r == [run EXCEPT !.transcriptText = text]
                 ext == Answered(extCalls, "ok")
             IN  IF ReturnsCached(zohoAuth, t, FALSE)
                 THEN AfterToken([r EXCEPT !.accessToken =
                                              zohoAuth.accessToken],
                                 zohoAuth,
                                 Append(tokenCalls, [force |-> FALSE,
                                                     refresh |-> FALSE]),
                                 ext, t)
                 ELSE /\ run' = [r EXCEPT !.pc = "token"]
                      /\ UNCHANGED tempFile
                      /\ Frame(zohoAuth, t, writes,
                               Append(tokenCalls, [force |-> FALSE,
                                                   refresh |-> TRUE]),
                               Started(ext, "oauth"))
    /\ UNCHANGED <<requestBody, analysisEnabled>>
    /\ UNCHANGED <<queueVars, rateVars, tokenVars>>

\* the refresh call of getZohoAccessToken() settles
TokenResponds ==
    /\ run.pc = "token"
    /\ \E ok \in BOOLEAN, t \in zohoNow..MaxZohoClock, e \in ExpiresIn :
        IF ok
        THEN AfterToken([run EXCEPT !.accessToken =
                                       Refreshed(zohoAuth, t, e).accessToken],
                        Refreshed(zohoAuth, t, e), tokenCalls,
                        Answered(extCalls, "ok"), t)
        ELSE /\ Settled(run, tempFile, "failed", "token")
             /\ Frame(zohoAuth, zohoNow, writes, tokenCalls,
                      Answered(extCalls, "failed"))
    /\ UNCHANGED <<requestBody, analysisEnabled>>
    /\ UNCHANGED <<queueVars, rateVars, tokenVars>>

\* openai.chat.completions.create settles; its failure is caught and the run
\* goes on without analysis text
AnalysisResponds ==
    /\ run.pc = "analysis"
    /\ \E res \in {"fail", "", "analysis"} :
        UpdateZoho([run EXCEPT !.analysisText = IF res = "fail" THEN ""
                                                               ELSE res,
                               !.analysisFailed = (res = "fail")],
                   writes, zohoAuth, tokenCalls,
                   Answered(extCalls, IF res = "fail" THEN "failed" ELSE "ok"),
                   zohoNow)
    /\ UNCHANGED <<requestBody, analysisEnabled>>
    /\ UNCHANGED <<queueVars, rateVars, tokenVars>>

\* axios.put(zohoUpdateUrl, basePayload) settles
CrmPutResponds ==
    /\ run.pc = "crm_put"
    /\ \E e \in PutResponses :
        LET w == [writes EXCEPT ![Len(writes)].result = e]
        IN  IF e = "ok"
            THEN /\ Settled(run, tempFile, "success", "none")
                 /\ Frame(zohoAuth, zohoNow, w, tokenCalls,
                          Answered(extCalls, "ok"))
            ELSE Catch(run, w, zohoAuth, tokenCalls,
                       Answered(extCalls, "failed"), zohoNow, e, "crm")
    /\ UNCHANGED <<requestBody, analysisEnabled>>
    /\ UNCHANGED <<queueVars, rateVars, tokenVars>>

\* The refresh getZohoAccessToken(true) started for a retry settles.  When it
\* fails its error is caught by the loop's catch.  When it returns,
\* `accessToken = ...` assigns to a binding declared const and throws a
\* TypeError, caught likewise.  Neither error carries a response.
CrmTokenResponds ==
    /\ run.pc = "crm_token"
    /\ \E ok \in BOOLEAN, t \in zohoNow..MaxZohoClock, e \in ExpiresIn :
        IF ok
        THEN Catch(run, writes, Refreshed(zohoAuth, t, e), tokenCalls,
                   Answered(extCalls, "ok"), t, "network", "const_assign")
        ELSE Catch(run, writes, zohoAuth, tokenCalls,
                   Answered(extCalls, "failed"), zohoNow, "network", "token")
    /\ UNCHANGED <<requestBody, analysisEnabled>>
    /\ UNCHANGED <<queueVars, rateVars, tokenVars>>

NextRun ==
    \/ ParseRequest
    \/ ResolveTokenResponds
    \/ ResolveResponds
    \/ KnowlarityResponds
    \/ DownloadResponds
    \/ TranscribeResponds
    \/ TokenResponds
    \/ AnalysisResponds
    \/ CrmPutResponds
    \/ CrmTokenResponds

SpecRun == InitRun /\ [][NextRun]_vars

\* every external call the run awaits is answered
SpecRunFair == SpecRun /\ WF_vars(NextRun)

(***************************************************************************)
(* Format detection of processAudioRequest                                 *)
(***************************************************************************)
\* A content type is a sequence of parts, the media type first; a URL is a
\* sequence of tokens, a file extension being a token of its own; the bytes
\* are a sequence of numbers 0..255.
ContentTypes ==
    { <<>>,                                   \* no content-type header
      <<"audio/wav">>, <<"audio/wave">>, <<"audio/mpeg">>, <<"audio/mp3">>,
      <<"audio/mp4">>, <<"audio/m4a">>, <<"audio/ogg">>, <<"audio/webm">>,
      <<"audio/flac">>, <<"video/mp4">>,
      <<"audio/mpeg", "; charset=binary">>,
      <<"application/octet-stream">>, <<"audio/x-wav">> }

SourceUrls ==
    { <<"https://", "cdn.example.com", "/clip", ".mp3">>,
      <<"https://", "cdn.example.com", "/clip", ".flac", "?x=1">>,
      <<"https://", "cdn.example.com", "/clip", ".WAV">>,
      <<"https://", "cdn.example.com", "/clip", ".oga">>,
      <<"https://", "cdn.example.com", "/clip">>,
      <<"https://", "cdn.example.com", "/clip", ".mp3", "#t=1">>,
      <<"https://", "cdn.example.com", "/clip", ".wav", "/raw">>,
      <<"https://", "cdn.example.com", "/dl", "?file=", "clip", ".ogg">> }

\* n bytes of value 0
Zeros(n) == [i \in 1..n |-> 0]

\* 'RIFF', 'WAVE', 'ID3', 'OggS', 'ftyp', 'fLaC' in ASCII
RIFF == <<82, 73, 70, 70>>
WAVE == <<87, 65, 86, 69>>
ID3 == <<73, 68, 51>>
OggS == <<79, 103, 103, 83>>
ftyp == <<102, 116, 121, 112>>
fLaC == <<102, 76, 97, 67>>

Buffers ==
    { <<>>,
      RIFF,
      RIFF \o Zeros(4) \o WAVE,                \* 12 bytes
      RIFF \o Zeros(4) \o WAVE \o Zeros(1),    \* 13 bytes
      ID3 \o Zeros(10),
      <<255, 251>> \o Zeros(11),
      <<255, 224>> \o Zeros(11),
      <<255, 223>> \o Zeros(11),
      OggS \o Zeros(9),
      Zeros(4) \o ftyp \o Zeros(5),
      fLaC \o Zeros(9),
      Zeros(13) }

\* recordingUrl.toLowerCase(), token by token
ToLowerCase(tok) == IF tok = ".WAV" THEN ".wav" ELSE tok

\* the extensions of /\.(mp3|wav|m4a|ogg|webm|flac|mp4|mpeg|mpga|oga)(\?|$)/
UrlExtensions ==
    {"mp3", "wav", "m4a", "ogg", "webm", "flac", "mp4", "mpeg", "mpga", "oga"}
\* the token '.' + ext
IsDotExt(tok, ext) ==
    tok = CASE ext = "mp3" -> ".mp3" [] ext = "wav" -> ".wav"
            [] ext = "m4a" -> ".m4a" [] ext = "ogg" -> ".ogg"
            [] ext = "webm" -> ".webm" [] ext = "flac" -> ".flac"
            [] ext = "mp4" -> ".mp4" [] ext = "mpeg" -> ".mpeg"
            [] ext = "mpga" -> ".mpga" [] ext = "oga" -> ".oga"
\* a token that begins with '?'
StartsQuery(tok) == tok \in {"?x=1", "?file="}

\* recordingUrl.toLowerCase().match(...): the extension of the first match,
\* "" when there is none
UrlExt(url) ==
    LET hits == {i \in 1..Len(url) :
                   /\ \E ext \in UrlExtensions :
                        IsDotExt(ToLowerCase(url[i]), ext)
                   /\ i = Len(url) \/ StartsQuery(url[i + 1])}
    IN  IF hits = {} THEN ""
        ELSE CHOOSE ext \in UrlExtensions :
                 IsDotExt(ToLowerCase(url[Min(hits)]), ext)

\* buffer.toString('ascii', start, end)
Ascii(buffer, start, end) ==
    SubSeq(buffer, start + 1, IF end < Len(buffer) THEN end ELSE Len(buffer))

\* buffer[0] === 0xff && (buffer[1] & 0xe0) === 0xe0
IsFrameSync(buffer) == buffer[1] = 255 /\ (buffer[2] \div 32) % 8 = 7

\* let fileExtension = 'mp3'
DefaultExtension_Mutant == ""
DefaultExtension == "mp3"

\* if (buffer.length > 12) { ... }: the signature tests, in their order
Sniff(buffer) ==
    IF Len(buffer) > 12
    THEN IF Ascii(buffer, 0, 4) = RIFF /\ Ascii(buffer, 8, 12) = WAVE
         THEN "wav"
         ELSE IF Ascii(buffer, 0, 3) = ID3 \/ IsFrameSync(buffer) THEN "mp3"
         ELSE IF Ascii(buffer, 0, 4) = OggS THEN "ogg"
         ELSE IF Ascii(buffer, 4, 8) = ftyp THEN "mp4"
         ELSE IF Ascii(buffer, 0, 4) = fLaC THEN "flac"
         ELSE DefaultExtension
    ELSE DefaultExtension

\* the if / else-if chain over contentType, then the URL, then the bytes
FileExtension(contentType, url, buffer) ==
    IF Includes(contentType, "audio/wav") \/ Includes(contentType, "audio/wave")
    THEN "wav"
    ELSE IF Includes(contentType, "audio/mpeg")
            \/ Includes(contentType, "audio/mp3") THEN "mp3"
    ELSE IF Includes(contentType, "audio/mp4")
            \/ Includes(contentType, "audio/m4a") THEN "m4a"
    ELSE IF Includes(contentType, "audio/ogg") THEN "ogg"
    ELSE IF Includes(contentType, "audio/webm") THEN "webm"
    ELSE IF Includes(contentType, "audio/flac") THEN "flac"
    ELSE IF Includes(contentType, "video/mp4") THEN "mp4"
    ELSE IF UrlExt(url) # "" THEN UrlExt(url)
    ELSE Sniff(buffer)

\* the download has been answered with a content type and bytes
InitFormat ==
    /\ queue = <<>>
    /\ activeRequests = {}
    /\ requestStats = ZeroStats
    /\ promise = [i \in Ids |-> "none"]
    /\ handler = [i \in Ids |-> "none"]
    /\ queueTime = [i \in Ids |-> 0]
    /\ now = 0
    /\ nextId = 1
    /\ immediates = 0
    /\ dispatched = <<>>
    /\ lastOp = "init"
    /\ rateLimitMap = EmptyRateLimitMap
    /\ rateNow = 0
    /\ rateLog = <<>>
    /\ requestBody = NoBody
    /\ analysisEnabled = FALSE
    /\ run \in {[FreshRun EXCEPT !.pc = "downloaded",
                                  !.recordingUrl = url,
                                  !.contentType = ct,
                                  !.buffer = b] :
                  url \in SourceUrls, ct \in ContentTypes, b \in Buffers}
    /\ tempFile = FALSE
    /\ zohoAuth = EmptyZohoAuth
    /\ zohoNow = 0
    /\ writes = <<>>
    /\ tokenCalls = <<>>
    /\ extCalls = <<>>
    /\ caller = IdleCallers
    /\ tokenLog = <<>>

\* the extension of the temp file is worked out
DetectFormat ==
    /\ run.pc = "downloaded"
    /\ run' = [run EXCEPT !.pc = "detected",
                          !.fileExtension =
                              FileExtension(run.contentType, run.recordingUrl,
                                            run.buffer)]
    /\ UNCHANGED <<requestBody, analysisEnabled, tempFile, zohoAuth, zohoNow,
                   writes, tokenCalls, extCalls>>
    /\ UNCHANGED <<queueVars, rateVars, tokenVars>>

\* the same response is given to the detection a second time
DetectFormatAgain ==
    /\ run.pc = "detected"
    /\ run' = [run EXCEPT !.pc = "detected_twice",
                          !.fileExtensionAgain =
                              FileExtension(run.contentType, run.recordingUrl,
                                            run.buffer)]
    /\ UNCHANGED <<requestBody, analysisEnabled, tempFile, zohoAuth, zohoNow,
                   writes, tokenCalls, extCalls>>
    /\ UNCHANGED <<queueVars, rateVars, tokenVars>>

NextFormat ==
    \/ DetectFormat
    \/ DetectFormatAgain

SpecFormat == InitFormat /\ [][NextFormat]_vars

(***************************************************************************)
(* POST /process-audio of the queued server                                *)
(***************************************************************************)
\* error.message of the rejection of the promise addRequest returned, as a
\* sequence of parts.  processAudioRequest quotes the request body in
\* `Missing required fields: ... Received: ${JSON.stringify(requestData)}`,
\* and a body may hold any text.
ErrorMessage(p) ==
    CASE p = "rejected_full" ->
            <<"Queue is full", ". Maximum", "requests can be queued",
              ". Please try again later.">>
      [] p = "rejected_cleared" -> <<"Queue cleared by administrator">>
      [] p = "rejected_task" -> <<"Failed to get Zoho access token.">>
      [] p = "rejected_quoting" ->
            <<"Missing required fields: Call_Record_ID and",
              "Call_Recording_URL. Received: ", "{\"note\":\"",
              "Queue is full", "\"}">>
      [] OTHER -> <<>>

\* the status the handler of POST /process-audio answers with once the
\* promise has settled; 0 while it has not
ResponseStatus(p) ==
    IF p \in {"none", "pending"} THEN 0
    ELSE IF p = "resolved" THEN 200
    ELSE IF Includes(ErrorMessage(p), "Queue is full") THEN 503
    ELSE 500

\* processAudioRequest throws an error whose message quotes the request body
HandlerThrowsQuoting(id) ==
    /\ handler[id] = "running"
    /\ handler' = [handler EXCEPT ![id] = "rejected_quoting"]
    /\ lastOp' = "handlerSettles"
    /\ UNCHANGED <<rateVars, runVars, tokenVars>>
    /\ UNCHANGED <<queue, activeRequests, requestStats, promise,
                   queueTime, now, nextId, immediates, dispatched>>

NextIngress ==
    \/ NextQueue
    \/ \E id \in Ids : HandlerThrowsQuoting(id)

SpecIngress == Init /\ [][NextIngress]_vars

(***************************************************************************)
(* POST /process-audio of index.js                                         *)
(***************************************************************************)
\* const callRecordId = req.body?.Call_Record_ID || req.body?.call_record_id
\* || req.body?.recordId; if (!callRecordId): a body that is not an object
\* has none of these properties
MissingCallRecordId_Mutant(b) == FALSE
MissingCallRecordId(b) ==
    \/ b.type # "object"
    \/ Or(b.Call_Record_ID, Or(b.call_record_id, b.recordId)) = ""

\* a request has arrived at POST /process-audio; nothing has run yet
InitHttp ==
    /\ queue = <<>>
    /\ activeRequests = {}
    /\ requestStats = ZeroStats
    /\ promise = [i \in Ids |-> "none"]
    /\ handler = [i \in Ids |-> "none"]
    /\ queueTime = [i \in Ids |-> 0]
    /\ now = 0
    /\ nextId = 1
    /\ immediates = 0
    /\ dispatched = <<>>
    /\ lastOp = "init"
    /\ rateLimitMap = EmptyRateLimitMap
    /\ rateNow = 0
    /\ rateLog = <<>>
    /\ requestBody \in Bodies
    /\ analysisEnabled \in BOOLEAN
    /\ run = [FreshRun EXCEPT !.pc = "request"]
    /\ tempFile = FALSE
    /\ zohoAuth \in {EmptyZohoAuth,
                     [accessToken |-> 1, expiryTime |-> MsPerSec,
                      issued |-> 1]}
    /\ zohoNow = 0
    /\ writes = <<>>
    /\ tokenCalls = <<>>
    /\ extCalls = <<>>
    /\ caller = IdleCallers
    /\ tokenLog = <<>>

\* the handler up to its first await: 400 when the body names no record,
\* else processAudioRequest(req.body, requestId) is called
PostProcessAudio ==
    /\ run.pc = "request"
    /\ run' = IF MissingCallRecordId(requestBody)
              THEN [run EXCEPT !.pc = "rejected", !.status = 400]
              ELSE [run EXCEPT !.pc = "start"]
    /\ UNCHANGED <<requestBody, analysisEnabled, tempFile, zohoAuth, zohoNow,
                   writes, tokenCalls, extCalls>>
    /\ UNCHANGED <<queueVars, rateVars, tokenVars>>

NextHttp ==
    \/ PostProcessAudio
    \/ NextRun

SpecHttp == InitHttp /\ [][NextHttp]_vars

(***************************************************************************)
(* getZohoAccessToken under concurrent callers                             *)
(***************************************************************************)
\* callers whose refresh request is in flight
Refreshing == {c \in Callers : caller[c].pc = "refreshing"}

\* The zoho module as loaded (no token cached), no call in progress; the
\* queue, the limiter and the run stay parked.
InitToken ==
    /\ queue = <<>>
    /\ activeRequests = {}
    /\ requestStats = ZeroStats
    /\ promise = [i \in Ids |-> "none"]
    /\ handler = [i \in Ids |-> "none"]
    /\ queueTime = [i \in Ids |-> 0]
    /\ now = 0
    /\ nextId = 1
    /\ immediates = 0
    /\ dispatched = <<>>
    /\ lastOp = "init"
    /\ rateLimitMap = EmptyRateLimitMap
    /\ rateNow = 0
    /\ rateLog = <<>>
    /\ requestBody = NoBody
    /\ analysisEnabled = FALSE
    /\ run = [FreshRun EXCEPT !.pc = "idle"]
    /\ tempFile = FALSE
    /\ zohoAuth = EmptyZohoAuth
    /\ zohoNow = 0
    /\ writes = <<>>
    /\ tokenCalls = <<>>
    /\ extCalls = <<>>
    /\ caller = IdleCallers
    /\ tokenLog = <<>>

\* time passes
ZohoTick ==
    /\ zohoNow < MaxZohoClock
    /\ zohoNow' = zohoNow + 1
    /\ UNCHANGED <<zohoAuth, caller, tokenLog>>
    /\ UNCHANGED <<requestBody, analysisEnabled, run, tempFile, writes,
                   tokenCalls, extCalls>>
    /\ UNCHANGED <<queueVars, rateVars>>

\* caller c calls getZohoAccessToken(force), up to the return of the cached
\* token or to the await of the refresh request
GetZohoAccessToken(c, force) ==
    /\ caller[c].pc = "idle"
    /\ Len(tokenLog) < MaxTokenCalls
    /\ IF ReturnsCached(zohoAuth, zohoNow, force)
           THEN /\ tokenLog' = Append(tokenLog,
                       [caller |-> c, force |-> force, time |-> zohoNow,
                        cacheAtCall |-> zohoAuth,
                        inFlightAtCall |-> Refreshing # {},
                        refresh |-> FALSE, result |-> "returned",
                        token |-> zohoAuth.accessToken,
                        cacheAfter |-> zohoAuth])
                /\ UNCHANGED caller
           ELSE /\ tokenLog' = Append(tokenLog,
                       [caller |-> c, force |-> force, time |-> zohoNow,
                        cacheAtCall |-> zohoAuth,
                        inFlightAtCall |-> Refreshing # {},
                        refresh |-> TRUE, result |-> "pending",
                        token |-> 0,
                        cacheAfter |-> zohoAuth])
                /\ caller' = [caller EXCEPT ![c] =
                                 [pc |-> "refreshing",
                                  entry |-> Len(tokenLog) + 1]]
    /\ UNCHANGED <<zohoAuth, zohoNow>>
    /\ UNCHANGED <<requestBody, analysisEnabled, run, tempFile, writes,
                   tokenCalls, extCalls>>
    /\ UNCHANGED <<queueVars, rateVars>>

\* what the OAuth endpoint may answer a refresh request with: a body with
\* access_token and expires_in, a 2xx body without them (an OAuth error
\* object), or a failure axios throws for
RefreshOutcomes == {"token", "no_token", "error"}

\* getZohoAccessToken after a 2xx answer without access_token and
\* expires_in: lines 42-49 read the two fields without a test, so the cache
\* becomes {accessToken: undefined, expiryTime: NaN} (undefined is written
\* 0 like null; NaN compares false with every time, as the expiry 0 does)
WithoutToken(auth) == [auth EXCEPT !.accessToken = 0, !.expiryTime = 0]

\* the refresh request of caller c settles: on a token the cache is replaced
\* and the new token returned, on a body without token the cache is replaced
\* and undefined returned, on a failure of the request the call throws
RefreshResponds(c) ==
    /\ caller[c].pc = "refreshing"
    /\ \E outcome \in RefreshOutcomes, e \in ExpiresIn :
        LET new == IF outcome = "token"
                   THEN Refreshed(zohoAuth, zohoNow, e)
                   ELSE WithoutToken(zohoAuth)
            k == caller[c].entry
        IN  IF outcome # "error"
            THEN /\ zohoAuth' = new
                 /\ tokenLog' = [tokenLog EXCEPT
                                    ![k].result = "returned",
                                    ![k].token = new.accessToken,
                                    ![k].cacheAfter = new]
            ELSE /\ zohoAuth' = zohoAuth
                 /\ tokenLog' = [tokenLog EXCEPT
                                    ![k].result = "threw",
                                    ![k].cacheAfter = zohoAuth]
    /\ caller' = [caller EXCEPT ![c] = [pc |-> "idle", entry |-> 0]]
    /\ UNCHANGED zohoNow
    /\ UNCHANGED <<requestBody, analysisEnabled, run, tempFile, writes,
                   tokenCalls, extCalls>>
    /\ UNCHANGED <<queueVars, rateVars>>

NextToken ==
    \/ ZohoTick
    \/ \E c \in Callers, force \in BOOLEAN : GetZohoAccessToken(c, force)
    \/ \E c \in Callers : RefreshResponds(c)

SpecToken == InitToken /\ [][NextToken]_vars

(***************************************************************************)
(* extractUuid on its own                                                  *)
(***************************************************************************)
\* the tokens the references explored are made of
RefTokens == {" ", "/recording/", Uuid, "call42", "?serviceID=9"}

\* every reference of at most MaxRefLen tokens
References == UNION {[1..n -> RefTokens] : n \in 0..MaxRefLen}

\* extractUuid(value) is about to be called on a reference
InitExtract ==
    /\ queue = <<>>
    /\ activeRequests = {}
    /\ requestStats = ZeroStats
    /\ promise = [i \in Ids |-> "none"]
    /\ handler = [i \in Ids |-> "none"]
    /\ queueTime = [i \in Ids |-> 0]
    /\ now = 0
    /\ nextId = 1
    /\ immediates = 0
    /\ dispatched = <<>>
    /\ lastOp = "init"
    /\ rateLimitMap = EmptyRateLimitMap
    /\ rateNow = 0
    /\ rateLog = <<>>
    /\ requestBody = NoBody
    /\ analysisEnabled = FALSE
    /\ run \in {[FreshRun EXCEPT !.pc = "extract", !.voiceRecording = v] :
                  v \in References}
    /\ tempFile = FALSE
    /\ zohoAuth = EmptyZohoAuth
    /\ zohoNow = 0
    /\ writes = <<>>
    /\ tokenCalls = <<>>
    /\ extCalls = <<>>
    /\ caller = IdleCallers
    /\ tokenLog = <<>>

\* the call returns
ExtractUuid ==
    /\ run.pc = "extract"
    /\ run' = [run EXCEPT !.pc = "extracted",
                          !.uuid = extractUuid(run.voiceRecording)]
    /\ UNCHANGED <<requestBody, analysisEnabled, tempFile, zohoAuth, zohoNow,
                   writes, tokenCalls, extCalls>>
    /\ UNCHANGED <<queueVars, rateVars, tokenVars>>

NextExtract == ExtractUuid

SpecExtract == InitExtract /\ [][NextExtract]_vars

(***************************************************************************)
(* Properties of the rate limiter                                          *)
(***************************************************************************)
\* log positions of the calls of client c that next() admitted
Admits(c) == {i \in 1..Len(rateLog) :
                 rateLog[i].client = c /\ rateLog[i].status = 0}
\* admitted calls of c counted by the fixed window that ends at resetTime r
AdmitsInWindow(c, r, upto) ==
    {i \in Admits(c) : rateLog[i].resetTime = r /\ i < upto}

InFlight == {i \in Ids : handler[i] \in {"running", "fulfilled", "rejected"}}

\* C1: whatever the interleaving of addRequest calls, task settlements and
\* clearQueue calls, the active set (dispatched, not yet evicted) never
\* holds more than maxConcurrent requests.
C1_ConcurrencyBound ==
    /\ Cardinality(activeRequests) <= maxConcurrent
    /\ Cardinality(InFlight) <= maxConcurrent

C1_Witness ==
    /\ Cardinality(activeRequests) = maxConcurrent
    /\ Len(queue) > 0
    /\ \E i \in Ids : promise[i] = "rejected_cleared"
    /\ \E i \in Ids : handler[i] \in {"done_ok", "done_err"}

\* an addRequest step rejects on a full backlog and accepts otherwise
C2_AddRequestStep ==
    lastOp' = "addRequest" =>
        IF Len(queue) >= maxQueueSize
        THEN /\ promise'[nextId] = "rejected_full"
             /\ queue' = queue
             /\ activeRequests' = activeRequests
             /\ requestStats' = requestStats
             /\ dispatched' = dispatched
             /\ handler' = handler
        ELSE /\ promise'[nextId] = "pending"
             /\ nextId \in Range(queue') \cup activeRequests'
             /\ requestStats'.total = requestStats.total + 1

\* a request rejected for a full backlog is nowhere in the scheduler
C2_RejectedStaysOut ==
    \A i \in Ids : promise[i] = "rejected_full" =>
        /\ i \notin Range(queue)
        /\ i \notin activeRequests
        /\ i \notin Range(dispatched)
        /\ handler[i] = "none"

C2_RejectionIsFinal ==
    \A i \in Ids : promise[i] = "rejected_full" =>
                       promise'[i] = "rejected_full"

\* C2: an addRequest call made while the backlog holds maxQueueSize entries
\* rejects its promise with "Queue is full" and changes neither the backlog,
\* the active set nor the counters, and the rejected request is never queued
\* or dispatched; a call made while the backlog is shorter is accepted: its
\* promise is pending and the request is in the backlog or the active set.
C2_AdmissionBoundary ==
    /\ [][C2_AddRequestStep]_vars
    /\ []C2_RejectedStaysOut
    /\ [][C2_RejectionIsFinal]_vars

C2_Witness ==
    /\ lastOp = "addRequest"
    /\ Len(queue) = maxQueueSize
    /\ \E i \in Ids : promise[i] = "rejected_full"

\* C3: dispatch is FIFO.  Request ids are handed out in submission order, so
\* i < j says i was enqueued before j.  Requests are dispatched in the order
\* they were enqueued, and everything still waiting was enqueued after (and
\* carries a queueTime no smaller than) everything dispatched so far.
C3_FifoDispatch ==
    /\ \A i, j \in 1..Len(dispatched) : i < j =>
            /\ dispatched[i] < dispatched[j]
            /\ queueTime[dispatched[i]] <= queueTime[dispatched[j]]
    /\ \A d \in Range(dispatched), w \in Range(queue) :
            /\ d < w
            /\ queueTime[d] <= queueTime[w]
    /\ \A i, j \in 1..Len(queue) : i < j =>
            /\ queue[i] < queue[j]
            /\ queueTime[queue[i]] <= queueTime[queue[j]]

C3_Witness ==
    /\ lastOp = "continuation"
    /\ Len(dispatched) > maxConcurrent
    /\ Len(queue) > 0
    /\ queueTime[dispatched[Len(dispatched)]] < queueTime[queue[1]]

\* a request leaves the backlog by being dispatched or by clearQueue
C4_LeavesByDispatch ==
    \A i \in Range(queue) : i \notin Range(queue') =>
        \/ i \in Range(dispatched')
        \/ promise'[i] = "rejected_cleared" /\ lastOp' = "clearQueue"

\* the continuation of a settled handler frees the slot and dispatches the
\* head of a non-empty backlog
C4_SettlementDispatches ==
    lastOp' = "continuation" =>
        /\ Cardinality(InFlight') <= Cardinality(InFlight)
        /\ \E i \in activeRequests :
              handler[i] \in {"fulfilled", "rejected"} /\ i \notin activeRequests'
        /\ queue # <<>> =>
               /\ Len(dispatched') = Len(dispatched) + 1
               /\ dispatched'[Len(dispatched')] = queue[1]

\* C4: the queue drains itself.  With every dispatched handler settling and
\* no further call from outside, a non-empty backlog always becomes empty,
\* and a request leaves the backlog only by being dispatched (or by a
\* clearQueue call): so every backlog entry is eventually dispatched unless
\* clearQueue removes it.  Each settlement evicts its request from the active
\* set and, when the backlog is not empty, dispatches its oldest entry in the
\* same step.
C4_SelfDrain ==
    /\ (queue # <<>>) ~> (queue = <<>>)
    /\ [][C4_LeavesByDispatch]_vars
    /\ [][C4_SettlementDispatches]_vars

C4_Witness ==
    /\ lastOp = "continuation"
    /\ Len(dispatched) = MaxRequests
    /\ requestStats.failed > 0
    /\ requestStats.completed > 0

\* what a clearQueue step changes and what it leaves alone
C5_ClearStep ==
    lastOp' = "clearQueue" =>
        /\ \A i \in Range(queue) : promise'[i] = "rejected_cleared"
        /\ \A i \in Ids \ Range(queue) : promise'[i] = promise[i]
        /\ queue' = <<>>
        /\ activeRequests' = activeRequests
        /\ handler' = handler
        /\ dispatched' = dispatched

\* a dispatched request is settled by the outcome of its own handler only
C5_OwnOutcome ==
    \A i \in Range(dispatched) :
        /\ promise[i] \in {"pending", "resolved", "rejected_task"}
        /\ promise[i] = "resolved" <=> handler[i] = "done_ok"
        /\ promise[i] = "rejected_task" <=> handler[i] = "done_err"

\* C5: clearQueue rejects every request of the backlog with "Queue cleared by
\* administrator" and leaves the backlog empty; the active set, the running
\* handlers and every other promise are untouched, and a dispatched request
\* is only ever settled by its own handler's outcome.
C5_ClearQueue == [][C5_ClearStep]_vars /\ []C5_OwnOutcome

C5_Witness ==
    /\ lastOp = "clearQueue"
    /\ Cardinality(activeRequests) = maxConcurrent
    /\ Cardinality({i \in Ids : promise[i] = "rejected_cleared"}) >= 2
    /\ \E i \in Ids : promise[i] = "resolved"

(***************************************************************************)
(* Properties of a pipeline run                                            *)
(***************************************************************************)
\* the PUTs that have not been answered yet
PendingWrites == {i \in 1..Len(writes) : writes[i].result = "pending"}
\* the getZohoAccessToken(true) calls of the run
ForcedCalls == {i \in 1..Len(tokenCalls) : tokenCalls[i].force}

C8_AuthFailureSurfacesCrmError ==
    ( /\ run.pc = "settled"
      /\ writes # <<>>
      /\ \A i \in 1..Len(writes) : isAuthError(writes[i].result)
      /\ run.error # "token" )
    => /\ Cardinality(ForcedCalls) <= 1
       /\ run.outcome = "failed"
       /\ run.error = "crm"

\* C9 as stated: when the first PUT carries AI_Analysis and is answered by an
\* error that mentions the field (and no token request fails), exactly one
\* further PUT follows for that reason, it carries the transcript without
\* AI_Analysis, and the run succeeds when that PUT is accepted.
C9_FieldRejectionRetriesOnce ==
    ( /\ run.pc = "settled"
      /\ writes # <<>>
      /\ writes[1].payload.AI_Analysis
      /\ writes[1].result = "field"
      /\ run.error # "token" )
    => /\ Len(writes) >= 2
       /\ ~writes[2].payload.AI_Analysis
       /\ writes[2].payload.Description = run.transcriptText
       /\ writes[2].result = "ok" => run.outcome = "success"

C10_Bounds ==
    /\ Len(writes) <= maxRetries + 1
    /\ Cardinality(PendingWrites) <= 1
    /\ PendingWrites # {} =>
           PendingWrites = {Len(writes)} /\ run.pc = "crm_put"
    /\ run.retryCount <= maxRetries
    /\ run.pc = "settled" <=> run.outcome \in {"success", "failed"}

\* C10: whatever the CRM answers, a run sends at most maxRetries + 1 PUTs,
\* never a PUT while another is unanswered, counts at most maxRetries
\* retries, and always settles, as a success or as a failure.
C10_BoundedRetries == []C10_Bounds /\ <>(run.pc = "settled")

C10_Witness ==
    /\ run.pc = "settled"
    /\ run.retryCount > 0
    /\ writes # <<>>
    /\ run.outcome = "failed"

\* the calls of extCalls by name
CallsOf(name) == {i \in 1..Len(extCalls) : extCalls[i].call = name}
\* the last external call the run started
LastCall == extCalls[Len(extCalls)]

\* C11: a PUT answered by an error that is neither an authentication error
\* nor a rejection of the analysis field is never retried: it is the last
\* external call of the run, which fails at once with the error of the CRM.
C11_OtherFailureNotRetried ==
    \A i \in 1..Len(writes) :
        writes[i].result \in {"other", "network"} =>
            /\ i = Len(writes)
            /\ run.pc = "settled"
            /\ run.outcome = "failed"
            /\ run.error = "crm"
            /\ LastCall = [call |-> "crm_put", result |-> "failed"]
            /\ CallsOf("oauth_retry") = {}

C11_Witness ==
    /\ run.pc = "settled"
    /\ Len(writes) = 1
    /\ writes[1].result = "other"
    /\ writes[1].payload.AI_Analysis
    /\ run.error = "crm"

\* C12 as stated: once a PUT has been answered by an authentication error
\* and the refresh that follows has succeeded, a retry PUT is sent, and it
\* carries the token of that refresh, never the token that was rejected.
C12_RetryUsesFreshToken ==
    ( /\ run.pc = "settled"
      /\ writes # <<>>
      /\ writes[1].result \in {"auth", "auth_field"}
      /\ \E i \in CallsOf("oauth_retry") : extCalls[i].result = "ok" )
    => /\ Len(writes) >= 2
       /\ writes[2].token # writes[1].token
       /\ writes[2].token = zohoAuth.accessToken

\* C13 as stated: a getZohoAccessToken call makes a refresh request exactly
\* when no token is cached, the cached one has expired, or the refresh is
\* forced; it returns the cached token otherwise; a successful refresh
\* replaces token and expiry together.
C13_GetTokenContract ==
    \A i \in 1..Len(tokenLog) :
        LET e == tokenLog[i]
        IN  /\ e.refresh <=> (e.force \/ ~TokenIsValid(e.cacheAtCall, e.time))
            /\ (~e.refresh) => e.token = e.cacheAtCall.accessToken
            /\ (e.refresh /\ e.result = "returned" /\ e.token # 0) =>
                  /\ e.cacheAfter.accessToken = e.token
                  /\ e.cacheAfter.expiryTime >= e.time

\* C14 as stated: a call made while a refresh request is in flight starts no
\* refresh request of its own, so at most one is in flight at any time.
C14_RefreshCoalesced ==
    /\ Cardinality(Refreshing) <= 1
    /\ \A i \in 1..Len(tokenLog) :
          tokenLog[i].inFlightAtCall => ~tokenLog[i].refresh

\* the request carries no identifier under any alias key
NoIdentifier(b) ==
    b.Call_Record_ID = "" /\ b.call_record_id = "" /\ b.recordId = ""

\* the stages of the run in their order, by the external calls they make
CallRank(name) ==
    CASE name \in {"oauth_resolver", "crm_fetch", "knowlarity"} -> 1
      [] name = "download" -> 2
      [] name = "transcribe" -> 3
      [] name = "oauth" -> 4
      [] name = "analysis" -> 5
      [] name \in {"crm_put", "oauth_retry"} -> 6

\* the errors of the stages before the CRM update, with the call each one
\* ends on
StageFailures ==
    { <<"resolve_token", "oauth_resolver", "failed">>,
      <<"record_missing", "crm_fetch", "failed">>,
      <<"reference_blank", "crm_fetch", "ok">>,
      <<"no_identifier", "crm_fetch", "ok">>,
      <<"knowlarity_credentials", "crm_fetch", "ok">>,
      <<"knowlarity", "knowlarity", "failed">>,
      <<"no_secured_url", "knowlarity", "ok">>,
      <<"download", "download", "failed">>,
      <<"persist", "download", "ok">>,
      <<"transcribe", "transcribe", "failed">>,
      <<"empty_transcript", "transcribe", "ok">>,
      <<"token", "oauth", "failed">> }

C16_BlankTranscriptFails ==
    ( /\ \E i \in CallsOf("transcribe") : extCalls[i].result = "ok"
      /\ run.transcriptText \in {"", " "} )
    => /\ run.pc = "settled"
       /\ run.outcome = "failed"
       /\ run.error = "empty_transcript"
       /\ writes = <<>>
       /\ LastCall = [call |-> "transcribe", result |-> "ok"]

C16_Witness ==
    /\ run.pc = "settled"
    /\ run.error = "empty_transcript"
    /\ run.transcriptText = " "
    /\ ~tempFile

\* C17: when the analysis call fails the run goes on: the PUT is sent with
\* the transcript and without AI_Analysis, and the run succeeds when the CRM
\* accepts it.
C17_AnalysisFailureNonFatal ==
    run.analysisFailed =>
        /\ analysisEnabled
        /\ writes # <<>>
        /\ writes[1].payload.Description = run.transcriptText
        /\ writes[1].payload.id = run.Call_Record_ID
        /\ ~writes[1].payload.AI_Analysis
        /\ run.error # "analysis"
        /\ writes[1].result = "ok" =>
              run.pc = "settled" /\ run.outcome = "success"

C17_Witness ==
    /\ run.analysisFailed
    /\ run.pc = "settled"
    /\ run.outcome = "success"
    /\ extCalls[Len(extCalls) - 1] = [call |-> "analysis", result |-> "failed"]

\* C18: a run that settles with success returns the identifier parsed from
\* the request and the transcript the transcription call returned, a PUT
\* carrying that transcript for that record has been accepted, and the
\* caller answers 200.
C18_SuccessResult ==
    (run.pc = "settled" /\ run.outcome = "success") =>
        /\ run.status = 200
        /\ run.result.recordId =
              Or(requestBody.Call_Record_ID,
                 Or(requestBody.call_record_id, requestBody.recordId))
        /\ run.result.recordId # ""
        /\ run.result.transcript = run.transcriptText
        /\ run.result.transcript = "hello world"
        /\ \E i \in 1..Len(writes) :
              /\ writes[i].result = "ok"
              /\ writes[i].payload.id = run.result.recordId
              /\ writes[i].payload.Description = run.result.transcript

C18_Witness ==
    /\ run.pc = "settled"
    /\ run.outcome = "success"
    /\ run.status = 200
    /\ run.result = [recordId |-> "idB", transcript |-> "hello world"]
    /\ run.recordingUrl = UrlA

\* the aliases of the recording URL in a request body
UrlAliases(b) == {b.Call_Recording_URL, b.call_recording_url, b.recordingUrl}
\* the calls of the resolver
ResolverCalls ==
    CallsOf("oauth_resolver") \cup CallsOf("crm_fetch")
        \cup CallsOf("knowlarity")

\* C19 as stated: when the body carries a non-blank URL under any alias key
\* the run downloads from such a URL and the resolver makes no call; when
\* every alias is absent or blank the resolver is called before any
\* download.
C19_ResolverOnlyWithoutUrl ==
    LET usable == {u \in UrlAliases(requestBody) : TrimTokens(u) # <<>>}
    IN  extCalls # <<>> =>
            IF usable # {}
            THEN /\ ResolverCalls = {}
                 /\ extCalls[1].call = "download"
                 /\ run.recordingUrl \in usable
            ELSE extCalls[1].call \in {"oauth_resolver", "crm_fetch"}

ResolverFailed ==
    /\ run.pc = "settled"
    /\ run.outcome = "failed"
    /\ run.recordingUrl = <<>>
    /\ CallsOf("download") = {}
    /\ writes = <<>>

\* C21: the resolver fails the run, returning no URL, when the CRM record
\* or its recording field is missing, when the field is blank, when no
\* identifier can be extracted from the reference, and when the Knowlarity
\* response holds no secured URL; in the first three cases Knowlarity is not
\* called.
C21_ResolverFailures ==
    LET s == TrimTokens(run.voiceRecording)
        fetched == \E i \in CallsOf("crm_fetch") : extCalls[i].result = "ok"
        direct == /\ s[1] \in {"http://", "https://"}
                  /\ \A i \in 1..Len(s) : s[i] # "phonebridge.zoho.com"
    IN  /\ (\E i \in CallsOf("crm_fetch") : extCalls[i].result = "failed") =>
              /\ ResolverFailed
              /\ run.error = "record_missing"
              /\ CallsOf("knowlarity") = {}
        /\ (fetched /\ s = <<>>) =>
              /\ ResolverFailed
              /\ run.error = "reference_blank"
              /\ CallsOf("knowlarity") = {}
        /\ (fetched /\ s # <<>> /\ ~direct /\ extractUuid(s) = <<>>) =>
              /\ ResolverFailed
              /\ run.error = "no_identifier"
              /\ CallsOf("knowlarity") = {}
        /\ run.error = "no_secured_url" =>
              /\ ResolverFailed
              /\ LastCall = [call |-> "knowlarity", result |-> "ok"]

C21_Witness ==
    /\ run.pc = "settled"
    /\ run.error = "no_identifier"
    /\ run.voiceRecording = <<"https://", "phonebridge.zoho.com", "/a.mp3">>
    /\ LastCall = [call |-> "crm_fetch", result |-> "ok"]

\* C22: extractUuid tries three patterns in order and returns the first
\* match: the UUID that follows '/recording/', else the segment that follows
\* '/recording/' up to the next '/' or '?', else the first UUID anywhere; it
\* returns the empty result exactly when none matches, and the UUID for
\* '/recording/{UUID}?serviceID=9'.
C22_ExtractionOrder ==
    run.pc = "extracted" =>
        LET s == TrimTokens(run.voiceRecording)
            stop(tok) == tok \in {"/recording/", "?serviceID=9"}
            A == {i \in 1..(Len(s) - 1) :
                    s[i] = "/recording/" /\ s[i + 1] = Uuid}
            B == {i \in 1..(Len(s) - 1) :
                    s[i] = "/recording/" /\ ~stop(s[i + 1])}
            C == {i \in 1..Len(s) : s[i] = Uuid}
            n == Len(run.uuid)
        IN  /\ A # {} => run.uuid = <<Uuid>>
            /\ (A = {} /\ B # {}) =>
                  LET i == Min(B)
                  IN  /\ n >= 1
                      /\ run.uuid = SubSeq(s, i + 1, i + n)
                      /\ \A k \in 1..n : ~stop(run.uuid[k])
                      /\ i + n = Len(s) \/ stop(s[i + n + 1])
            /\ (A = {} /\ B = {} /\ C # {}) => run.uuid = <<Uuid>>
            /\ run.uuid = <<>> <=> (A = {} /\ B = {} /\ C = {})
            /\ run.voiceRecording = <<"/recording/", Uuid, "?serviceID=9">>
                  => run.uuid = <<Uuid>>

C22_Witness ==
    /\ run.pc = "extracted"
    /\ run.voiceRecording = <<"/recording/", "call42", "/recording/", Uuid>>
    /\ run.uuid = <<Uuid>>

\* C23: a request whose body names no record under Call_Record_ID,
\* call_record_id or recordId is answered 400 and starts no stage: no
\* external call, no token call, no temp file, no PUT; when several of the
\* keys are present the identifier is the first of them in that order.
C23_MissingIdRejected ==
    LET b == requestBody
        first == IF b.Call_Record_ID # "" THEN b.Call_Record_ID
                 ELSE IF b.call_record_id # "" THEN b.call_record_id
                 ELSE b.recordId
        untouched == /\ extCalls = <<>>
                     /\ tokenCalls = <<>>
                     /\ writes = <<>>
                     /\ ~run.everWritten
                     /\ ~tempFile
    IN  /\ (NoIdentifier(b) /\ run.pc # "request") =>
              /\ run.pc = "rejected"
              /\ run.status = 400
              /\ untouched
        /\ run.status = 400 => untouched
        /\ run.pc \notin {"request", "rejected", "start"} =>
              /\ run.Call_Record_ID = first
              /\ first # ""
        /\ \A i \in 1..Len(writes) : writes[i].payload.id = first
        /\ run.outcome = "success" => run.result.recordId = first

C23_Witness ==
    /\ run.pc = "rejected"
    /\ run.status = 400
    /\ requestBody.type = "object"
    /\ NoIdentifier(requestBody)
    /\ requestBody.Call_Recording_URL = UrlA

\* C24 as stated: the response of a queued request is chosen by its outcome:
\* none before its promise settles, 503 when addRequest found the queue
\* full, 500 for every other failure (the handler threw, or clearQueue
\* rejected the entry), and 200 only when the handler has completed.
C24_ResponseByOutcome ==
    \A i \in Ids :
        LET status == ResponseStatus(promise[i])
        IN  /\ promise[i] \in {"none", "pending"} <=> status = 0
            /\ status = 503 <=> promise[i] = "rejected_full"
            /\ status = 500 <=>
                  promise[i] \in {"rejected_cleared", "rejected_task",
                                  "rejected_quoting"}
            /\ status = 200 <=> promise[i] = "resolved"
            /\ status = 200 => handler[i] = "done_ok"
            /\ handler[i] \in {"running", "fulfilled", "rejected",
                               "rejected_quoting"} => status = 0

\* the table of content types, as pairs <<media type, extension>>
ContentTypeTable ==
    { <<"audio/wav", "wav">>, <<"audio/wave", "wav">>,
      <<"audio/mpeg", "mp3">>, <<"audio/mp3", "mp3">>,
      <<"audio/mp4", "m4a">>, <<"audio/m4a", "m4a">>,
      <<"audio/ogg", "ogg">>, <<"audio/webm", "webm">>,
      <<"audio/flac", "flac">>, <<"video/mp4", "mp4">> }
\* the extensions the table gives for the content type of the run
MappedExtensions ==
    {p[2] : p \in {q \in ContentTypeTable :
                     \E i \in 1..Len(run.contentType) :
                         run.contentType[i] = q[1]}}
\* the URLs of SourceUrls whose path ends with an extension, and that
\* extension
UrlHint ==
    LET u == run.recordingUrl
    IN  CASE u[Len(u)] = ".mp3" -> "mp3"
          [] u[Len(u)] = ".WAV" -> "wav"
          [] u[Len(u)] = ".oga" -> "oga"
          [] u[Len(u)] = ".ogg" -> "ogg"
          [] Len(u) = 5 /\ u[4] = ".flac" /\ u[5] = "?x=1" -> "flac"
          [] OTHER -> ""
\* the bytes begin with RIFF, four bytes, WAVE
StartsRiffWave ==
    /\ Len(run.buffer) >= 12
    /\ SubSeq(run.buffer, 1, 4) = <<82, 73, 70, 70>>
    /\ SubSeq(run.buffer, 9, 12) = <<87, 65, 86, 69>>

\* C25 as stated: a content type of the table decides the extension whatever
\* the URL and the bytes are; else an extension at the end of the URL's path
\* decides; else the signature of the bytes decides, and bytes that begin
\* with RIFF....WAVE give wav.
C25_DetectionPriority ==
    run.pc = "detected" =>
        /\ MappedExtensions # {} => run.fileExtension \in MappedExtensions
        /\ (MappedExtensions = {} /\ UrlHint # "") =>
              run.fileExtension = UrlHint
        /\ (MappedExtensions = {} /\ UrlHint = "" /\ StartsRiffWave) =>
              run.fileExtension = "wav"
        /\ ( /\ run.contentType = <<"audio/wav">>
             /\ run.recordingUrl[Len(run.recordingUrl)] = ".mp3" )
           => run.fileExtension = "wav"
        /\ ( /\ run.contentType = <<>>
             /\ run.recordingUrl[Len(run.recordingUrl)] = "?x=1" )
           => run.fileExtension = "flac"

C27_LimiterStep ==
    /\ \A c \in Clients : rateLimitMap[c].count <= RATE_LIMIT_MAX_REQUESTS
    /\ \A i \in 1..Len(rateLog) :
          LET e == rateLog[i]
              b == e.before
              a == e.after
              opens == ~b.present \/ e.time > b.resetTime
              count == IF opens THEN 0 ELSE b.count
          IN  /\ a.present
              /\ a.resetTime = IF opens THEN e.time + WindowSecs * MsPerSec
                                        ELSE b.resetTime
              /\ e.status = 429 <=> count >= RATE_LIMIT_MAX_REQUESTS
              /\ e.status = 0 <=> count < RATE_LIMIT_MAX_REQUESTS
              /\ e.status = 429 => a.count = count
              /\ e.status = 0 => a.count = count + 1
              /\ a.count <= RATE_LIMIT_MAX_REQUESTS
              /\ i = Len(rateLog) => rateLimitMap[e.client] = a

C27_Witness ==
    \E i, j \in 1..Len(rateLog) :
        /\ i < j
        /\ rateLog[i].client = rateLog[j].client
        /\ rateLog[i].status = 429
        /\ rateLog[i].time = rateLog[i].before.resetTime
        /\ rateLog[i].after.count = RATE_LIMIT_MAX_REQUESTS
        /\ rateLog[j].time > rateLog[j].before.resetTime
        /\ rateLog[j].before.count = RATE_LIMIT_MAX_REQUESTS
        /\ rateLog[j].after.count = 1

\* the forced token call of a retry pass failed
RetryTokenFailed ==
    \E k \in CallsOf("oauth_retry") : extCalls[k].result = "failed"

\* C28 as stated: the two retry triggers share retryCount.  A PUT rejected
\* for authentication is retried while fewer than maxRetries retries have
\* been consumed, so also on the attempt that follows a field-rejection
\* retry; a PUT rejected for the analysis field is retried only when it is
\* the first attempt, and is fatal on any later one.
C28_AsymmetricRetries ==
    (run.pc = "settled" /\ ~RetryTokenFailed) =>
        \A i \in 1..Len(writes) :
            LET e == writes[i].result
            IN  /\ (e \in {"auth", "auth_field"} /\ i - 1 < maxRetries) =>
                      Len(writes) > i
                /\ (e = "field" /\ writes[i].payload.AI_Analysis /\ i = 1) =>
                      /\ Len(writes) > i
                      /\ ~writes[i + 1].payload.AI_Analysis
                /\ (e = "field" /\ i > 1) => i = Len(writes)

\* C29 as stated: once a retry has been triggered, by either trigger, the
\* retry pass asks for a token with getZohoAccessToken(true) and then sends
\* a PUT with the token that call returned; when that call fails the run
\* fails with no further PUT.
C29_RetryWithForcedToken ==
    /\ \A i \in 2..Len(writes) :
          /\ Cardinality(ForcedCalls) >= i - 1
          /\ writes[i].token = zohoAuth.accessToken
    /\ (run.pc = "settled" /\ run.retryCount >= 1) =>
          /\ ForcedCalls # {}
          /\ IF RetryTokenFailed
             THEN /\ run.outcome = "failed"
                  /\ Len(writes) = 1
             ELSE /\ Len(writes) >= 2
                  /\ writes[2].token = zohoAuth.accessToken

\* the analysis field was rejected on the first attempt and dropped
AnalysisDropped ==
    /\ writes # <<>>
    /\ writes[1].result = "field"
    /\ writes[1].payload.AI_Analysis

C31_WorkConserving ==
    Len(queue) > 0 => Cardinality(activeRequests) = maxConcurrent

C31_Witness ==
    /\ lastOp = "continuation"
    /\ Len(queue) > 0
    /\ Cardinality(activeRequests) = maxConcurrent
    /\ requestStats.completed + requestStats.failed >= 2


\* C32: the statistics account for every admitted request: after any
\* sequence of addRequest calls, dispatches, settlements and clearQueue
\* calls, total = completed + failed + queued + processing.
C32_StatsAccount ==
    requestStats.total = requestStats.completed + requestStats.failed
                         + requestStats.queued + requestStats.processing


\* the counters queued and processing mirror the backlog and the active set
C33_CountersMirror ==
    /\ requestStats.queued = Len(queue)
    /\ requestStats.queued <= maxQueueSize
    /\ requestStats.processing = Cardinality(activeRequests)
    /\ requestStats.queued >= 0
    /\ requestStats.processing >= 0
    /\ Range(queue) \cap activeRequests = {}
    /\ \A i, j \in 1..Len(queue) : i # j => queue[i] # queue[j]

\* total, completed and failed only grow
C33_NeverDecrease ==
    /\ requestStats'.total >= requestStats.total
    /\ requestStats'.completed >= requestStats.completed
    /\ requestStats'.failed >= requestStats.failed

\* C33: in every reachable state the counter queued equals the length of
\* the backlog and is at most maxQueueSize, the counter processing equals
\* the size of the active set, neither is negative, no request is in the
\* backlog and in the active set at once, and no step decreases total,
\* completed or failed.
C33_CounterInvariants ==
    /\ []C33_CountersMirror
    /\ [][C33_NeverDecrease]_vars

C33_Witness ==
    /\ lastOp = "clearQueue"
    /\ requestStats.queued = 0
    /\ requestStats.processing = maxConcurrent
    /\ requestStats.total >= maxConcurrent + 2
    /\ requestStats.completed + requestStats.failed >= 1


\* how each future stands with respect to its request
C34_OwnSettlement ==
    \A i \in Ids :
        /\ promise[i] = "pending" <=> i \in Range(queue) \cup activeRequests
        /\ promise[i] = "resolved" => handler[i] = "done_ok"
        /\ promise[i] = "rejected_task" => handler[i] = "done_err"
        /\ promise[i] = "rejected_cleared" =>
               /\ handler[i] = "none"
               /\ i \notin Range(dispatched)
        /\ handler[i] \in {"done_ok", "done_err"} =>
               promise[i] \in {"resolved", "rejected_task"}
        /\ i \in activeRequests <=>
               handler[i] \in {"running", "fulfilled", "rejected"}

\* a settled future stays as it was settled, and a request leaves the active
\* set only in the continuation that follows the settlement of its handler
C34_SettledOnce ==
    \A i \in Ids :
        /\ promise[i] \notin {"none", "pending"} => promise'[i] = promise[i]
        /\ (i \in activeRequests /\ i \notin activeRequests') =>
               /\ handler[i] \in {"fulfilled", "rejected"}
               /\ lastOp' = "continuation"
               /\ promise'[i] = Settle(handler[i])

\* no future is pending and no request is left in the active set
C34_AllSettled ==
    /\ \A i \in Ids : promise[i] # "pending"
    /\ activeRequests = {}

\* C34: the future of every accepted submission is settled exactly once:
\* resolved after its handler fulfilled, rejected after its handler
\* rejected, or rejected by clearQueue while the request was still in the
\* backlog; once settled it never changes, and with handlers settling every
\* pending future is settled in the end.  A request clearQueue removed is
\* never dispatched, and a dispatched request is in the active set exactly
\* until the continuation that follows the settlement of its handler.
C34_SettledExactlyOnce ==
    /\ []C34_OwnSettlement
    /\ [][C34_SettledOnce]_vars
    /\ []<>C34_AllSettled

C34_Witness ==
    /\ \E i \in Ids : promise[i] = "resolved"
    /\ \E i \in Ids : promise[i] = "rejected_task"
    /\ \E i \in Ids : promise[i] = "rejected_cleared"
    /\ \A i \in Ids : promise[i] \notin {"none", "pending"}
    /\ activeRequests = {}


(***************************************************************************)
(* Properties of the /process-audio route of the queued server             *)
(***************************************************************************)
\* entries of rateLog the limiter admitted
Admitted == {k \in 1..Len(rateLog) : rateLog[k].status # 429}

\* the count of the entry the limiter works on once the window test is done
CountInWindow(e) ==
    IF ~e.before.present \/ e.time > e.before.resetTime
    THEN 0 ELSE e.before.count

\* what the step of one request does to the limiter and to the queue
C35_RequestStep ==
    IF Len(rateLog') = Len(rateLog) + 1
    THEN LET e == rateLog'[Len(rateLog')]
         IN  IF e.status = 429
             THEN /\ queue' = queue
                  /\ activeRequests' = activeRequests
                  /\ requestStats' = requestStats
                  /\ promise' = promise
                  /\ handler' = handler
                  /\ dispatched' = dispatched
                  /\ nextId' = nextId
                  /\ rateLimitMap'[e.client].count = CountInWindow(e)
             ELSE /\ nextId' = nextId + 1
                  /\ promise'[nextId] \in {"pending", "rejected_full"}
                  /\ rateLimitMap'[e.client].count = CountInWindow(e) + 1
                  /\ promise'[nextId] = "rejected_full" =>
                         /\ queue' = queue
                         /\ requestStats' = requestStats
    ELSE rateLimitMap' = rateLimitMap

\* the queue has seen exactly the requests the limiter admitted
C35_OnlyAdmittedReachQueue ==
    /\ nextId - 1 = Cardinality(Admitted)
    /\ requestStats.total
         + Cardinality({i \in Ids : promise[i] = "rejected_full"})
       = Cardinality(Admitted)

\* C35: admission control precedes the queue.  A request the limiter
\* answers with 429 never reaches addRequest: the step changes neither the
\* backlog, the active set, a counter nor a future, and the queue only ever
\* sees admitted requests.  A request the limiter admitted and addRequest
\* then rejected for a full backlog has raised its client's count by one all
\* the same, and no later step of the queue gives the unit back.
C35_AdmissionPrecedesQueue ==
    /\ [][C35_RequestStep]_vars
    /\ []C35_OnlyAdmittedReachQueue

C35_Witness ==
    /\ lastOp = "addRequest"
    /\ promise[nextId - 1] = "rejected_full"
    /\ rateLog[Len(rateLog)].status = 0
    /\ rateLimitMap[rateLog[Len(rateLog)].client].count
          = RATE_LIMIT_MAX_REQUESTS
    /\ \E k \in 1..Len(rateLog) : rateLog[k].status = 429


\* the times of the requests of the client of entry k, up to and including
\* entry k itself
OwnTimes(k) ==
    LET own == SelectSeq(SubSeq(rateLog, 1, k),
                         LAMBDA e : e.client = rateLog[k].client)
    IN  [i \in 1..Len(own) |-> own[i].time]

\* the answer to the last of the requests made at times ts by one client
\* that is alone with the limiter, d being its entry before request i
RECURSIVE AloneDecision(_, _, _)
AloneDecision(ts, i, d) ==
    LET t == ts[i]
        d0 == IF d.present THEN d
              ELSE [present |-> TRUE, count |-> 0,
                    resetTime |-> t + RATE_LIMIT_WINDOW]
        d1 == IF WindowExpired(t, d0.resetTime)
              THEN [d0 EXCEPT !.count = 0, !.resetTime = t + RATE_LIMIT_WINDOW]
              ELSE d0
        rejected == LimitReached(d1.count)
        d2 == IF rejected THEN d1 ELSE [d1 EXCEPT !.count = @ + 1]
    IN  IF i = Len(ts)
        THEN [status |-> IF rejected THEN 429 ELSE 0,
              retryAfter |-> IF rejected THEN RetryAfter(d1.resetTime, t)
                             ELSE 0,
              after |-> d2]
        ELSE AloneDecision(ts, i + 1, d2)

\* every answer is the one the client would have got alone
C36_OwnHistoryDecides ==
    \A k \in 1..Len(rateLog) :
        LET alone == AloneDecision(OwnTimes(k), 1,
                         [present |-> FALSE, count |-> 0, resetTime |-> 0])
        IN  /\ rateLog[k].status = alone.status
            /\ rateLog[k].retryAfter = alone.retryAfter
            /\ rateLog[k].after = alone.after

\* a request changes the entry of its own client only
C36_OthersUntouched ==
    Len(rateLog') = Len(rateLog) + 1 =>
        \A c \in Clients \ {rateLog'[Len(rateLog')].client} :
            rateLimitMap'[c] = rateLimitMap[c]

\* C36: rate limiting is per client.  The answer to a request of client A
\* (admitted or 429, and retryAfter) and the count and window it leaves
\* behind are those the limiter would produce from the times of A's own
\* requests alone, and a request of another client never changes A's entry.
C36_PerClient ==
    /\ []C36_OwnHistoryDecides
    /\ [][C36_OthersUntouched]_vars

C36_Witness ==
    \E k, l \in 1..Len(rateLog) :
        /\ k < l
        /\ rateLog[k].client = "ipA"
        /\ rateLog[k].status = 429
        /\ rateLog[l].client = "ipB"
        /\ rateLog[l].status = 0
        /\ rateLog[l].time = rateLog[k].time
        /\ rateLog[l].after.count = 1


(***************************************************************************)
(* Properties of the token cache: failed refreshes                         *)
(***************************************************************************)
\* a refresh that obtained no token leaves the cache as it was and throws
C37_FailedRefreshStep ==
    \A k \in 1..Len(tokenLog) :
        ( /\ tokenLog[k].result = "pending"
          /\ tokenLog'[k].result # "pending"
          /\ tokenLog'[k].token = 0 ) =>
            /\ zohoAuth' = zohoAuth
            /\ tokenLog'[k].result = "threw"

\* a cached token is cached with the expiry of the refresh that issued it
C37_PairedCache ==
    zohoAuth.accessToken # 0 =>
        \E k \in 1..Len(tokenLog) :
            /\ tokenLog[k].refresh
            /\ tokenLog[k].token = zohoAuth.accessToken
            /\ tokenLog[k].cacheAfter = zohoAuth

\* C37: a token refresh that fails leaves the cached credential as it was,
\* token and expiry, and surfaces an error to the caller; the cache never
\* holds a token together with the expiry of another refresh.
C37_FailedRefreshKeepsCache ==
    /\ [][C37_FailedRefreshStep]_vars
    /\ []C37_PairedCache

=============================================================================
